---- MODULE Spec2Model ----
(***************************************************************************)
(* xprv-gen-openapi: the type-to-schema compiler of the xprv repository.   *)
(*                                                                         *)
(* Strings on which the code works character by character (paths) are     *)
(* sequences of one-character strings; Str turns them into the atomic      *)
(* strings used as map keys.  JSON objects are records that carry exactly  *)
(* the keys the code writes; the empty object {} is the empty record.      *)
(***************************************************************************)
EXTENDS Integers, Sequences, FiniteSets, TLC

VARIABLES
    TypeTable,   \* the types of the loaded project, as the compiler API reports them
    pc,          \* which operation was applied last / position of the run
    call,        \* arguments and result of the last operation applied
    components,  \* SchemaGenerator.components
    first,       \* history: type id -> fragment its first getSchema returned
    ncalls,      \* number of calls made so far (bounded)
    paths,       \* OpenApiBuilder.paths
    ops,         \* history: the operations passed to addOperation, in order
    app,         \* the input of a run: the project and the application type
    errors,      \* the error responses main selected for the run
    stack,       \* the traverseRoutes frames of the run, innermost last
    output,      \* the output file: <<>> until written, then <<document>>
    exitCode     \* process.exitCode

vars == <<TypeTable, pc, call, components, first, ncalls, paths, ops,
          app, errors, stack, output, exitCode>>
runVars == <<TypeTable, app, errors, stack, output, exitCode>>

(***************************************************************************)
(* Bounds                                                                  *)
(***************************************************************************)
\* longest base / segment string given to joinPaths
MaxLen == 3
\* number of getSchema calls in one behaviour of SpecSchema
MaxCalls == 3
\* depth of the JavaScript call stack, in nested getSchema frames
MaxStack == 5

EmptyObj == [k \in {} |-> k]
NoCall == [fn |-> "none"]
NoApp == [root |-> "none"]
NoErrors == [internal |-> <<>>, validation |-> <<>>, notFound |-> <<>>,
             methodNotAllowed |-> <<>>]

\* no run of main is part of the behaviour
NoRun ==
    /\ app = NoApp
    /\ errors = NoErrors
    /\ stack = <<>>
    /\ output = <<>>
    /\ exitCode = 0

(***************************************************************************)
(* Character strings                                                       *)
(***************************************************************************)
RECURSIVE Str(_)
Str(cs) == IF cs = <<>> THEN "" ELSE Head(cs) \o Str(Tail(cs))

StartsWith(s, c) == Len(s) > 0 /\ s[1] = c

\* s.replace(/\/$/, "")
StripTrailingSlash(s) ==
    IF Len(s) > 0 /\ s[Len(s)] = "/" THEN SubSeq(s, 1, Len(s) - 1) ELSE s

NoCollapse(s) == s

\* s.replace(/\/+/g, "/")
RECURSIVE CollapseSlashes(_)
CollapseSlashes(s) ==
    IF Len(s) < 2 THEN s
    ELSE IF s[1] = "/" /\ s[2] = "/" THEN CollapseSlashes(Tail(s))
    ELSE <<s[1]>> \o CollapseSlashes(Tail(s))

\* parts.filter(Boolean).join("/")
JoinNonEmpty(a, b) ==
    IF a = <<>> THEN b
    ELSE IF b = <<>> THEN a
    ELSE a \o <<"/">> \o b

joinPaths(base, segment) ==
    LET cleanBase == IF base = <<"/">> THEN <<>> ELSE StripTrailingSlash(base)
        cleanSegment == IF StartsWith(segment, "/") THEN Tail(segment) ELSE segment
        combined == JoinNonEmpty(cleanBase, cleanSegment)
        collapsed == CollapseSlashes(<<"/">> \o combined)
    IN  IF collapsed = <<>> THEN <<"/">> ELSE collapsed

(***************************************************************************)
(* Inputs of joinPaths: every string over PathAlphabet of length <= MaxLen *)
(***************************************************************************)
PathAlphabet == {"/", "a", "b"}

PathStrings == UNION {[1..n -> PathAlphabet] : n \in 0..MaxLen}

\* the non-empty components of a string, in order
RECURSIVE ComponentsFrom(_, _)
ComponentsFrom(s, cur) ==
    IF s = <<>> THEN (IF cur = <<>> THEN <<>> ELSE <<cur>>)
    ELSE IF Head(s) = "/"
         THEN (IF cur = <<>> THEN <<>> ELSE <<cur>>) \o ComponentsFrom(Tail(s), <<>>)
         ELSE ComponentsFrom(Tail(s), Append(cur, Head(s)))

Components(s) == ComponentsFrom(s, <<>>)

HasDoubleSlash(s) == \E i \in 1..(Len(s) - 1) : s[i] = "/" /\ s[i + 1] = "/"

(***************************************************************************)
(* The Type Oracle (ts-morph): the types of one input program.  A type is  *)
(* named by an id; TypeTable answers the queries the code makes on it.     *)
(*   kind     which of isNever / isAny / ... / isUnion / isObject holds     *)
(*   sym      getSymbol().getName(), "" when the type has no symbol         *)
(*   named    some declaration is an interface, class, alias or enum       *)
(*   lit      getLiteralValue()                                             *)
(*   members  getUnionTypes / getIntersectionTypes / getTupleElements      *)
(*   args     getTypeArguments, elem: getArrayElementType                  *)
(*   props    getProperties: name, type at the declaration, isOptional     *)
(*   index    getStringIndexType                                            *)
(***************************************************************************)
BaseType ==
    [kind |-> "object", sym |-> "", named |-> FALSE, lit |-> EmptyObj,
     members |-> <<>>, args |-> <<>>, elem |-> <<>>, props |-> <<>>,
     index |-> <<>>]

Prim(k) == [BaseType EXCEPT !.kind = k]
Lit(k, v) == [BaseType EXCEPT !.kind = k, !.lit = v]
UnionOf(ms) == [BaseType EXCEPT !.kind = "union", !.members = ms]
Prop(n, t, o) == [name |-> n, type |-> t, optional |-> o]
\* an object literal type: its symbol is the synthetic __type
Anon(ps) == [BaseType EXCEPT !.sym = "__type", !.props = ps]
\* a declared interface
Interface(n, ps) == [BaseType EXCEPT !.sym = n, !.named = TRUE, !.props = ps]
\* an instantiation of a generic interface or class of lib.d.ts or of xprv
Generic(n, as) == [BaseType EXCEPT !.sym = n, !.named = TRUE, !.args = as]

DeclaredTypes ==
    ("never" :> Prim("never")) @@ ("any" :> Prim("any")) @@
    ("unknown" :> Prim("unknown")) @@ ("void" :> Prim("void")) @@
    ("null" :> Prim("null")) @@ ("undefined" :> Prim("undefined")) @@
    ("number" :> Prim("number")) @@ ("string" :> Prim("string")) @@
    \* boolean is the union false | true that also carries the Boolean flag
    ("boolean" :> [Prim("boolean") EXCEPT !.members = <<"false", "true">>]) @@
    ("bigint" :> Prim("bigint")) @@
    ("symbol" :> Prim("symbol")) @@
    ("7n" :> Lit("bigintlit", [num |-> 7])) @@
    \* the `object` keyword: matches no rule of getSchema
    ("nonprimitive" :> Prim("nonprimitive")) @@
    ("'a'" :> Lit("strlit", [str |-> "a"])) @@
    ("'b'" :> Lit("strlit", [str |-> "b"])) @@
    ("'c'" :> Lit("strlit", [str |-> "c"])) @@
    ("1" :> Lit("numlit", [num |-> 1])) @@
    ("2" :> Lit("numlit", [num |-> 2])) @@
    ("200" :> Lit("numlit", [num |-> 200])) @@
    ("204" :> Lit("numlit", [num |-> 204])) @@
    ("false" :> Lit("boollit", [bool |-> FALSE])) @@
    ("true" :> Lit("boollit", [bool |-> TRUE])) @@
    ("'a'|'b'|'c'" :> UnionOf(<<"'a'", "'b'", "'c'">>)) @@
    ("'a'|'b'" :> UnionOf(<<"'a'", "'b'">>)) @@
    ("1|2" :> UnionOf(<<"1", "2">>)) @@
    ("string|undefined" :> UnionOf(<<"undefined", "string">>)) @@
    ("string|number" :> UnionOf(<<"string", "number">>)) @@
    ("'a'|'b'|undefined" :> UnionOf(<<"undefined", "'a'", "'b'">>)) @@
    ("boolean|undefined" :> UnionOf(<<"undefined", "false", "true">>)) @@
    ("Tree|undefined" :> UnionOf(<<"undefined", "Tree">>)) @@
    ("{}" :> Anon(<<>>)) @@
    ("{message}" :> Anon(<<Prop("message", "string", FALSE)>>)) @@
    ("{a,b}" :> Anon(<<Prop("a", "number", FALSE), Prop("b", "number", FALSE)>>)) @@
    ("{id}" :> Anon(<<Prop("id", "string", FALSE)>>)) @@
    ("{id?,x}" :> Anon(<<Prop("id", "string|undefined", TRUE),
                         Prop("x", "number", FALSE)>>)) @@
    ("{mixed}" :> Anon(<<Prop("plain", "string", FALSE),
                         Prop("opt", "string|undefined", TRUE),
                         Prop("undef", "string|undefined", FALSE),
                         Prop("either", "string|number", FALSE),
                         Prop("user", "User", FALSE),
                         Prop("__", "string", FALSE)>>)) @@
    ("{role}" :> Anon(<<Prop("role", "'a'|'b'|'c'", FALSE)>>)) @@
    ("{role?}" :> Anon(<<Prop("role", "'a'|'b'|undefined", TRUE)>>)) @@
    ("{level}" :> Anon(<<Prop("level", "1|2", FALSE)>>)) @@
    ("{flag}" :> Anon(<<Prop("flag", "boolean", FALSE)>>)) @@
    ("{[k]:number}" :> [Anon(<<>>) EXCEPT !.index = <<"number">>]) @@
    ("string[]" :> [Generic("Array", <<"string">>) EXCEPT
                       !.kind = "array", !.elem = <<"string">>]) @@
    ("[string,User]" :> [BaseType EXCEPT !.kind = "tuple",
                                          !.members = <<"string", "User">>]) @@
    ("{id}&{message}" :> [BaseType EXCEPT !.kind = "intersection",
                                            !.members = <<"{id}", "{message}">>]) @@
    ("User" :> Interface("User", <<Prop("name", "string", FALSE),
                                   Prop("address", "Address", FALSE)>>)) @@
    ("Address" :> Interface("Address", <<Prop("city", "string", FALSE)>>)) @@
    \* a second declaration named User, inside a namespace: its symbol has the
    \* name of the interface User of the file
    ("Admin.User" :> Interface("User", <<Prop("role", "string", FALSE)>>)) @@
    \* self-referential, known to the nominal generator
    ("Tree" :> Interface("Tree", <<Prop("next", "Tree|undefined", TRUE)>>)) @@
    \* self-referential, declared outside the file given to the generator
    ("Loop" :> Interface("Loop", <<Prop("next", "Loop", FALSE)>>)) @@
    \* declared outside the file given to the generator
    ("Ext" :> Interface("Ext", <<Prop("id", "number", FALSE)>>)) @@
    ("Promise<{message}>" :> Generic("Promise", <<"{message}">>)) @@
    ("Date" :> Generic("Date", <<>>)) @@
    ("Map<string,number>" :> Generic("Map", <<"string", "number">>)) @@
    ("Record<string,number>" :> Generic("Record", <<"string", "number">>)) @@
    ("{error}" :> Anon(<<Prop("error", "string", FALSE)>>)) @@
    ("{issues}" :> Anon(<<Prop("issues", "string[]", FALSE)>>)) @@
    ("{x-id}" :> Anon(<<Prop("x-id", "string", FALSE)>>)) @@
    ("{q?}" :> Anon(<<Prop("q", "string|undefined", TRUE)>>)) @@
    ("{a,b}|undefined" :> UnionOf(<<"undefined", "{a,b}">>)) @@
    \* response envelopes JsonResponse<status, body, headers>
    ("Json<200,{message}>" :> Generic("JsonResponse", <<"200", "{message}", "{}">>)) @@
    ("Json<200,User,{x-id}>" :> Generic("JsonResponse", <<"200", "User", "{x-id}">>)) @@
    ("Json<204>" :> Generic("JsonResponse", <<"204", "undefined", "{}">>)) @@
    ("Json<400,{error}>" :> Generic("JsonResponse", <<"400", "{error}", "{}">>)) @@
    ("Json<400,{issues}>" :> Generic("JsonResponse", <<"400", "{issues}", "{}">>)) @@
    ("Json<404,{error}>" :> Generic("JsonResponse", <<"404", "{error}", "{}">>)) @@
    ("Json<405,{error}>" :> Generic("JsonResponse", <<"405", "{error}", "{}">>)) @@
    ("Json<500,{error}>" :> Generic("JsonResponse", <<"500", "{error}", "{}">>)) @@
    ("Json<503,{error}>" :> Generic("JsonResponse", <<"503", "{error}", "{}">>)) @@
    ("Json<number,{message}>" :> Generic("JsonResponse", <<"number", "{message}", "{}">>)) @@
    ("400" :> Lit("numlit", [num |-> 400])) @@
    ("404" :> Lit("numlit", [num |-> 404])) @@
    ("405" :> Lit("numlit", [num |-> 405])) @@
    ("500" :> Lit("numlit", [num |-> 500])) @@
    ("503" :> Lit("numlit", [num |-> 503])) @@
    ("Json<200>|Json<400>" :> UnionOf(<<"Json<200,{message}>", "Json<400,{error}>">>)) @@
    ("Promise<Json<200>|Json<400>>" :> Generic("Promise", <<"Json<200>|Json<400>">>)) @@
    ("Promise<Json<200>>|Json<204>" :>
        UnionOf(<<"Promise<Json<200>>", "Json<204>">>)) @@
    ("Promise<Json<200>>" :> Generic("Promise", <<"Json<200,{message}>">>)) @@
    \* wrappers nested two deep, a union with a leaf that is no envelope, a
    \* union of two envelopes of one status, a Promise without type argument
    ("Promise<Promise<Json<200>>|Json<204>>" :>
        Generic("Promise", <<"Promise<Json<200>>|Json<204>">>)) @@
    ("Promise<Promise<Json<200>>|Json<204>>|Json<404>" :>
        UnionOf(<<"Promise<Promise<Json<200>>|Json<204>>", "Json<404,{error}>">>)) @@
    ("string|Json<200>" :> UnionOf(<<"string", "Json<200,{message}>">>)) @@
    ("Json<400,{error}>|Json<400,{issues}>" :>
        UnionOf(<<"Json<400,{error}>", "Json<400,{issues}>">>)) @@
    ("Json<400,{error}>|Json<503>" :>
        UnionOf(<<"Json<400,{error}>", "Json<503,{error}>">>)) @@
    \* two envelopes of one status that declare one header with two types
    ("{x-id:number}" :> Anon(<<Prop("x-id", "number", FALSE)>>)) @@
    ("Json<200,{message},{x-id:number}>" :>
        Generic("JsonResponse", <<"200", "{message}", "{x-id:number}">>)) @@
    ("Json<200,User,{x-id}>|Json<200,{message},{x-id:number}>" :>
        UnionOf(<<"Json<200,User,{x-id}>", "Json<200,{message},{x-id:number}>">>)) @@
    ("Json<200>|Json<404>" :> UnionOf(<<"Json<200,{message}>", "Json<404,{error}>">>)) @@
    ("Promise<>" :> Generic("Promise", <<>>)) @@
    ("Promise<>|Json<204>" :> UnionOf(<<"Promise<>", "Json<204>">>)) @@
    \* envelopes whose body keeps a member once undefined is removed, whose
    \* body argument is absent, and whose status is a union of literals
    ("201" :> Lit("numlit", [num |-> 201])) @@
    ("200|201" :> UnionOf(<<"200", "201">>)) @@
    ("Json<201,{a,b}|undefined>" :>
        Generic("JsonResponse", <<"201", "{a,b}|undefined", "{}">>)) @@
    ("Json<200|201,{message}>" :>
        Generic("JsonResponse", <<"200|201", "{message}", "{}">>)) @@
    ("Json<201>" :> Generic("JsonResponse", <<"201">>)) @@
    ("Json<>" :> Generic("JsonResponse", <<>>)) @@
    \* request types JsonRequest<headers, params, query, body>
    ("Request<>" :> Generic("JsonRequest", <<"unknown", "unknown", "unknown", "unknown">>)) @@
    ("Request<{},{},{},undefined>" :> Generic("JsonRequest", <<"{}", "{}", "{}", "undefined">>)) @@
    ("Request<body>" :> Generic("JsonRequest", <<"unknown", "unknown", "unknown", "{a,b}">>)) @@
    ("Request<params>" :> Generic("JsonRequest", <<"unknown", "{id}", "unknown", "unknown">>)) @@
    ("Request<query>" :> Generic("JsonRequest", <<"unknown", "unknown", "{q?}", "unknown">>)) @@
    \* bodies that are unions of trivial and non-trivial members, and a
    \* request type with three arguments
    ("{}|{a,b}" :> UnionOf(<<"{}", "{a,b}">>)) @@
    ("{}|undefined" :> UnionOf(<<"undefined", "{}">>)) @@
    ("Request<body:{}|{a,b}>" :>
        Generic("JsonRequest", <<"unknown", "unknown", "unknown", "{}|{a,b}">>)) @@
    ("Request<body:{}|undefined>" :>
        Generic("JsonRequest", <<"unknown", "unknown", "unknown", "{}|undefined">>)) @@
    ("Request<body:string|undefined>" :>
        Generic("JsonRequest", <<"unknown", "unknown", "unknown", "string|undefined">>)) @@
    ("Request<h,p,q>" :> Generic("JsonRequest", <<"{x-id}", "{id}", "{q?}">>)) @@
    \* a property whose type has an undefined member without being declared
    \* optional, and one declared optional whose type has none
    ("{h}" :> Anon(<<Prop("h", "string|undefined", FALSE)>>)) @@
    ("{p?}" :> Anon(<<Prop("p", "string", TRUE)>>)) @@
    ("Request<{h},{p?},{p?}>" :>
        Generic("JsonRequest", <<"{h}", "{p?}", "{p?}", "unknown">>)) @@
    ("Request<{p?},{h},{h}>" :>
        Generic("JsonRequest", <<"{p?}", "{h}", "{h}", "unknown">>)) @@
    ("Request<all>" :>
        Generic("JsonRequest", <<"{x-id}", "{id?,x}", "{role?}", "{a,b}|undefined">>))

TypeIds == DOMAIN DeclaredTypes

IsUnion(t) == TypeTable[t].kind \in {"union", "boolean"}
IsUndefined(t) == TypeTable[t].kind = "undefined"
IsObject(t) == TypeTable[t].kind = "object"
IsStringLiteral(t) == TypeTable[t].kind = "strlit"
IsNumberLiteral(t) == TypeTable[t].kind = "numlit"
IsBooleanLiteral(t) == TypeTable[t].kind = "boollit"

\* types.filter(keep), for a predicate given as a set of type ids
RECURSIVE FilterOut(_, _)
FilterOut(ts, drop) ==
    IF ts = <<>> THEN <<>>
    ELSE (IF Head(ts) \in drop THEN <<>> ELSE <<Head(ts)>>) \o FilterOut(Tail(ts), drop)

UndefinedTypes == {t \in TypeIds : IsUndefined(t)}

splitUndefined(t) ==
    IF IsUnion(t)
    THEN LET all == TypeTable[t].members
             filtered == FilterOut(all, UndefinedTypes)
         IN  [types |-> filtered, optional |-> Len(filtered) # Len(all)]
    ELSE [types |-> <<t>>, optional |-> FALSE]

\* name.startsWith("__") ? name.slice(2) : name, on the names of TypeTable
cleanSymbolName(n) ==
    IF n = "__" THEN "" ELSE IF n = "__type" THEN "type" ELSE n

SyntheticNames == {"__", "__type"}

(***************************************************************************)
(* The nominal generator (ts-json-schema-generator, configured with        *)
(* topRef and expose "all"): createSchema(name) answers a root `$ref`      *)
(* into its own `definitions` block plus that block, and throws for a name *)
(* that is no root type of the file it was given.  A JSON pointer          *)
(* "#/a/b" is the sequence <<"a", "b">>.                                   *)
(***************************************************************************)
DefinitionRef(n) == ("$ref" :> <<"definitions", n>>)

AddressDefinition ==
    [type |-> "object",
     properties |-> [city |-> [type |-> "string"]],
     required |-> <<"city">>]

UserDefinition ==
    [type |-> "object",
     properties |-> [name |-> [type |-> "string"], address |-> DefinitionRef("Address")],
     required |-> <<"name", "address">>]

TreeDefinition ==
    [type |-> "object",
     properties |-> [next |-> DefinitionRef("Tree")]]

RootTypes == {"User", "Address", "Tree"}

Definitions(n) ==
    IF n = "User" THEN [User |-> UserDefinition, Address |-> AddressDefinition]
    ELSE IF n = "Address" THEN [Address |-> AddressDefinition]
    ELSE [Tree |-> TreeDefinition]

createSchema(n) ==
    IF n \in RootTypes
    THEN [threw |-> FALSE,
          schema |-> ("$schema" :> "http://json-schema.org/draft-07/schema#") @@
                     DefinitionRef(n) @@
                     [definitions |-> Definitions(n)]]
    ELSE [threw |-> TRUE]

(***************************************************************************)
(* SchemaGenerator.  Every operation takes the component table and returns *)
(* its result s together with the table c it leaves behind.  d is the      *)
(* number of getSchema frames the call stack still has room for: a call    *)
(* made with d = 0 raises RangeError, which nothing in the generator       *)
(* catches, so the marker stays where it was raised and Threw finds it.    *)
(***************************************************************************)
StackOverflow == [threw |-> "RangeError"]

Without(f, k) == [x \in DOMAIN f \ {k} |-> f[x]]

\* definitions replace the table instead of being merged into it
ReplaceDefinitions(comps, defs) == defs

\* for each definition: if (!components.has(defName)) components.set(...)
MergeDefinitions(comps, defs) ==
    [n \in DOMAIN comps \cup DOMAIN defs |->
        IF n \in DOMAIN comps THEN comps[n] ELSE defs[n]]

NotGenerated(comps) == [ok |-> FALSE, s |-> EmptyObj, c |-> comps]

\* const { $schema, ...rest } = schema; rest unless it is empty
StripSchemaKey(stripped) ==
    IF "$schema" \in DOMAIN stripped /\ DOMAIN Without(stripped, "$schema") # {}
    THEN Without(stripped, "$schema") ELSE stripped

\* the try block, for the answer lib of createSchema
FromLibrary(lib, comps) ==
    IF lib.threw THEN NotGenerated(comps)
    ELSE [ok |-> TRUE,
          s |-> StripSchemaKey(Without(lib.schema, "definitions")),
          c |-> IF "definitions" \in DOMAIN lib.schema
                THEN MergeDefinitions(comps, lib.schema.definitions) ELSE comps]

\* ty is what the Type Oracle answers for the type
GenerateByName(ty, comps) ==
    IF ty.sym = "" \/ ty.sym \in SyntheticNames THEN NotGenerated(comps)
    ELSE IF ~ty.named THEN NotGenerated(comps)
    ELSE FromLibrary(createSchema(ty.sym), comps)

tryGenerateSchemaByName(t, comps) == GenerateByName(TypeTable[t], comps)

LiteralValues(ts) == [i \in DOMAIN ts |-> TypeTable[ts[i]].lit]

\* { ...schema, nullable: true }
WithNullable(schema) ==
    [k \in DOMAIN schema \cup {"nullable"} |->
        IF k = "nullable" THEN TRUE ELSE schema[k]]

\* a result (schema s, table c) that leaves the table as it is
Leaf(schema, comps) == [s |-> schema, c |-> comps]

Prepend(h, r) == [ss |-> <<h.s>> \o r.ss, c |-> r.c]
OneOf(r) == [s |-> [oneOf |-> r.ss], c |-> r.c]
ItemsOf(r) == [s |-> [type |-> "array", items |-> r.s], c |-> r.c]
AdditionalOf(r) == [s |-> [type |-> "object", additionalProperties |-> r.s], c |-> r.c]
AllOf(r) == [s |-> [allOf |-> r.ss], c |-> r.c]
PrefixItemsOf(r) ==
    [s |-> [type |-> "array", prefixItems |-> r.ss, minItems |-> Len(r.ss)], c |-> r.c]

RECURSIVE getSchema(_, _, _)
RECURSIVE MapGetSchema(_, _, _)
RECURSIVE BuildProperties(_, _, _)

\* the rest of typeList.map(...) once the head h is classified
MapRest(ts, h, d) == Prepend(h, MapGetSchema(Tail(ts), h.c, d))

\* typeList.map((type) => this.getSchema(type)), left to right
MapGetSchema(ts, comps, d) ==
    IF ts = <<>> THEN [ss |-> <<>>, c |-> comps]
    ELSE MapRest(ts, getSchema(Head(ts), comps, d), d)

getSchemaFor(ts, comps, d) ==
    IF ts = <<>> THEN Leaf(EmptyObj, comps)
    ELSE IF Len(ts) = 1 THEN getSchema(ts[1], comps, d)
    ELSE OneOf(MapGetSchema(ts, comps, d))

\* propSchemas[name] = schemaValue; required.push(name) unless optional
PutProperty(property, split, acc, value) ==
    [ps |-> (cleanSymbolName(property.name) :> value.s) @@ acc.ps,
     req |-> IF ~split.optional /\ ~property.optional
             THEN Append(acc.req, cleanSymbolName(property.name)) ELSE acc.req,
     c |-> value.c]

\* one round of the loop over getProperties()
AddProperty(property, acc, d) ==
    IF cleanSymbolName(property.name) = "" THEN acc
    ELSE PutProperty(property, splitUndefined(property.type), acc,
                     getSchemaFor(splitUndefined(property.type).types, acc.c, d))

\* the loop over getProperties(): acc holds propSchemas, required and the table
BuildProperties(props, acc, d) ==
    IF props = <<>> THEN acc
    ELSE BuildProperties(Tail(props), AddProperty(Head(props), acc, d), d)

\* the schema object assembled after the loop
ObjectOf(ty, built, indexed) ==
    [s |-> [type |-> "object"]
           @@ (IF DOMAIN built.ps # {} THEN [properties |-> built.ps] ELSE EmptyObj)
           @@ (IF built.req # <<>> THEN [required |-> built.req] ELSE EmptyObj)
           @@ (IF ty.index # <<>> THEN [additionalProperties |-> indexed.s] ELSE EmptyObj),
     c |-> indexed.c]

WithIndexType(ty, built, d) ==
    ObjectOf(ty, built,
             IF ty.index # <<>> THEN getSchema(ty.index[1], built.c, d)
             ELSE Leaf(EmptyObj, built.c))

buildSimpleObjectSchema(t, comps, d) ==
    WithIndexType(TypeTable[t],
                  BuildProperties(TypeTable[t].props,
                                  [ps |-> EmptyObj, req |-> <<>>, c |-> comps], d),
                  d)

\* args[n] ? this.getSchema(args[n]) : {}
ArgSchema(ty, n, comps, d) ==
    IF Len(ty.args) >= n THEN getSchema(ty.args[n], comps, d) ELSE Leaf(EmptyObj, comps)

\* name === "Promise" ... return this.buildSimpleObjectSchema(type)
ObjectRule(ty, t, comps, d) ==
    CASE ty.sym = "Promise" -> ArgSchema(ty, 1, comps, d)
      [] ty.sym = "Date" -> Leaf([type |-> "string", format |-> "date-time"], comps)
      [] ty.sym = "RegExp" -> Leaf([type |-> "string", format |-> "regex"], comps)
      [] ty.sym = "Map" ->
            Leaf([type |-> "object", additionalProperties |-> EmptyObj], comps)
      [] ty.sym = "Set" ->
            Leaf([type |-> "array", items |-> EmptyObj, uniqueItems |-> TRUE], comps)
      [] ty.sym \in {"Partial", "Required", "Readonly", "Pick", "Omit"} ->
            ArgSchema(ty, 1, comps, d)
      [] ty.sym = "Record" -> AdditionalOf(ArgSchema(ty, 2, comps, d))
      [] ty.sym \in {"Array", "ReadonlyArray"} -> ItemsOf(ArgSchema(ty, 1, comps, d))
      [] OTHER -> buildSimpleObjectSchema(t, comps, d)

\* the object rule of getSchema
ObjectSchema(t, comps, d) == ObjectRule(TypeTable[t], t, comps, d)

\* filtered.length !== parts.length ? { ...schema, nullable: true } : schema
MarkNullable(parts, filtered, r) ==
    IF Len(filtered) # Len(parts) THEN [s |-> WithNullable(r.s), c |-> r.c] ELSE r

\* the union rule of getSchema
UnionRule(parts, comps, d) ==
    IF \A i \in DOMAIN parts : IsStringLiteral(parts[i])
    THEN Leaf([type |-> "string", enum |-> LiteralValues(parts)], comps)
    ELSE IF \A i \in DOMAIN parts : IsNumberLiteral(parts[i])
    THEN Leaf([type |-> "number", enum |-> LiteralValues(parts)], comps)
    ELSE IF \A i \in DOMAIN parts : IsBooleanLiteral(parts[i])
    THEN Leaf([type |-> "boolean"], comps)
    ELSE MarkNullable(parts, FilterOut(parts, UndefinedTypes),
                      getSchemaFor(FilterOut(parts, UndefinedTypes), comps, d))

UnionSchema(t, comps, d) == UnionRule(TypeTable[t].members, comps, d)

\* the structural rules of getSchema, in the order of the code; the kinds are
\* disjoint except boolean, whose isBoolean rule precedes the union rule
StructuralRule(ty, k, t, comps, d) ==
    CASE k = "never" -> Leaf([not |-> EmptyObj], comps)
      [] k = "any" -> Leaf([description |-> "Any value"], comps)
      [] k = "unknown" -> Leaf([description |-> "Unknown value"], comps)
      [] k \in {"void", "null"} -> Leaf([type |-> "null"], comps)
      [] k = "undefined" -> Leaf(EmptyObj, comps)
      [] k = "boolean" -> Leaf([type |-> "boolean"], comps)
      [] k = "number" -> Leaf([type |-> "number"], comps)
      [] k = "string" -> Leaf([type |-> "string"], comps)
      [] k = "strlit" -> Leaf([type |-> "string", enum |-> <<ty.lit>>], comps)
      [] k = "numlit" -> Leaf([type |-> "number", enum |-> <<ty.lit>>], comps)
      [] k = "boollit" -> Leaf([type |-> "boolean", enum |-> <<ty.lit>>], comps)
      [] k = "bigint" -> Leaf([type |-> "integer", format |-> "int64"], comps)
      [] k = "symbol" ->
            Leaf([type |-> "string", description |-> "Symbol (serialized as string)"],
                 comps)
      [] k = "bigintlit" ->
            Leaf([type |-> "integer", format |-> "int64", enum |-> <<ty.lit>>], comps)
      [] k = "tuple" ->
            IF ty.members = <<>> THEN Leaf([type |-> "array", items |-> EmptyObj], comps)
            ELSE PrefixItemsOf(MapGetSchema(ty.members, comps, d))
      [] k = "array" ->
            ItemsOf(IF ty.elem # <<>> THEN getSchema(ty.elem[1], comps, d)
                    ELSE Leaf(EmptyObj, comps))
      [] k = "intersection" -> AllOf(MapGetSchema(ty.members, comps, d))
      [] k = "union" -> UnionSchema(t, comps, d)
      [] k = "object" -> ObjectSchema(t, comps, d)
      [] OTHER -> Leaf(EmptyObj, comps)

StructuralSchema(t, comps, d) ==
    StructuralRule(TypeTable[t], TypeTable[t].kind, t, comps, d)

\* const librarySchema = ...; if (librarySchema) return librarySchema;
LibraryOrStructural(librarySchema, t, comps, d) ==
    IF librarySchema.ok THEN [s |-> librarySchema.s, c |-> librarySchema.c]
    ELSE StructuralSchema(t, comps, d - 1)

getSchema(t, comps, d) ==
    IF d = 0 THEN [s |-> StackOverflow, c |-> comps]
    ELSE LibraryOrStructural(tryGenerateSchemaByName(t, comps), t, comps, d)

(***************************************************************************)
(* Walking a schema fragment by the JSON Schema keywords that hold schemas *)
(***************************************************************************)
SchemaKeys == {"items", "additionalProperties", "not"}
SchemaListKeys == {"oneOf", "allOf", "prefixItems"}
SchemaMapKeys == {"properties", "definitions"}

RECURSIVE SubSchemas(_)
\* the fragment itself and every schema nested in it
SubSchemas(s) ==
    LET D == DOMAIN s
    IN  {s}
        \cup UNION {SubSchemas(s[k]) : k \in D \cap SchemaKeys}
        \cup UNION {UNION {SubSchemas(s[k][i]) : i \in DOMAIN s[k]} :
                      k \in D \cap SchemaListKeys}
        \cup UNION {UNION {SubSchemas(s[k][p]) : p \in DOMAIN s[k]} :
                      k \in D \cap SchemaMapKeys}

Refs(s) == {x["$ref"] : x \in {y \in SubSchemas(s) : "$ref" \in DOMAIN y}}

\* RangeError was raised while the fragment was computed
Threw(s) == \E x \in SubSchemas(s) : "threw" \in DOMAIN x

(***************************************************************************)
(* Response Extractor and Request Extractor (route-traversal.ts).  Calls   *)
(* into the SchemaGenerator start with the whole stack, MaxStack.          *)
(***************************************************************************)
IsAnyOrUnknown(t) == TypeTable[t].kind \in {"any", "unknown"}

\* properties.length === 0 && !type.getStringIndexType()
NoShape(t) == TypeTable[t].props = <<>> /\ TypeTable[t].index = <<>>

RECURSIVE HeaderLoop(_, _)
RECURSIVE ParameterLoop(_, _, _)
RECURSIVE ExtractLoop(_, _, _)
RECURSIVE isTrivialRequestComponent(_)

PutHeader(property, split, acc, value) ==
    [hs |-> (cleanSymbolName(property.name) :>
                [required |-> ~split.optional /\ ~property.optional, schema |-> value.s])
            @@ acc.hs,
     c |-> value.c]

AddHeader(property, acc) ==
    IF cleanSymbolName(property.name) = "" THEN acc
    ELSE PutHeader(property, splitUndefined(property.type), acc,
                   getSchemaFor(splitUndefined(property.type).types, acc.c, MaxStack))

HeaderLoop(props, acc) ==
    IF props = <<>> THEN acc ELSE HeaderLoop(Tail(props), AddHeader(Head(props), acc))

\* hs is the headers object; the function returns undefined when it is empty
headersFromType(t, comps) ==
    IF IsAnyOrUnknown(t) \/ NoShape(t) THEN [hs |-> EmptyObj, c |-> comps]
    ELSE HeaderLoop(TypeTable[t].props, [hs |-> EmptyObj, c |-> comps])

\* the response built for one JsonResponse<status, body, headers>
ResponseOf(status, hasBody, body, headers) ==
    [r |-> [status |-> status, description |-> "HTTP " \o status]
           @@ (IF hasBody THEN [schema |-> body.s] ELSE EmptyObj)
           @@ (IF DOMAIN headers.hs # {} THEN [headers |-> headers.hs] ELSE EmptyObj),
     c |-> headers.c]

WithHeadersArg(args, status, hasBody, body) ==
    ResponseOf(status, hasBody, body,
               IF Len(args) >= 3 THEN headersFromType(args[3], body.c)
               ELSE [hs |-> EmptyObj, c |-> body.c])

\* statusArg?.isNumberLiteral() ? String(statusArg.getLiteralValue()) : "default"
StatusOf(args) ==
    IF Len(args) >= 1 /\ IsNumberLiteral(args[1])
    THEN ToString(TypeTable[args[1]].lit.num) ELSE "default"

\* bodyArg ? splitUndefined(bodyArg) : { types: [], optional: false }
BodySplit(args) ==
    IF Len(args) >= 2 THEN splitUndefined(args[2]) ELSE [types |-> <<>>, optional |-> FALSE]

\* a body whenever the split left a type, undefined or not
HasAnyType(types) == Len(types) > 0

HasBody(types) == Len(types) > 0 /\ ~(\A i \in DOMAIN types : IsUndefined(types[i]))

WithBodySplit(args, types, comps) ==
    WithHeadersArg(args, StatusOf(args), HasBody(types),
                   IF HasBody(types) THEN getSchemaFor(types, comps, MaxStack)
                   ELSE Leaf(EmptyObj, comps))

EnvelopeResponse(t, comps) ==
    WithBodySplit(TypeTable[t].args, BodySplit(TypeTable[t].args).types, comps)

PushResponse(rest, results, e) == ExtractLoop(rest, Append(results, e.r), e.c)

\* the loop without line 67: what a Promise wraps is never looked at
ExtractStepDropsPromise(current, ty, rest, results, comps) ==
    IF IsUnion(current) THEN ExtractLoop(rest \o ty.members, results, comps)
    ELSE IF ty.sym = "JsonResponse"
    THEN PushResponse(rest, results, EnvelopeResponse(current, comps))
    ELSE ExtractLoop(rest, results, comps)

\* while (queue.length > 0) { const current = queue.pop(); ... }
\* one round of the loop: current is what queue.pop() gave, rest what is left
ExtractStep(current, ty, rest, results, comps) ==
    IF IsUnion(current) THEN ExtractLoop(rest \o ty.members, results, comps)
    ELSE IF ty.sym = "Promise"
    THEN ExtractLoop(IF Len(ty.args) > 0 THEN Append(rest, ty.args[1]) ELSE rest,
                     results, comps)
    ELSE IF ty.sym = "JsonResponse"
    THEN PushResponse(rest, results, EnvelopeResponse(current, comps))
    ELSE ExtractLoop(rest, results, comps)

ExtractLoop(queue, results, comps) ==
    IF queue = <<>> THEN [rs |-> results, c |-> comps]
    ELSE ExtractStep(queue[Len(queue)], TypeTable[queue[Len(queue)]],
                     SubSeq(queue, 1, Len(queue) - 1), results, comps)

extractResponses(t, comps) == ExtractLoop(<<t>>, <<>>, comps)

\* required as the type declares it, in every location
PutParameterAsDeclared(property, split, location, acc, value) ==
    [ps |-> Append(acc.ps,
                   [name |-> cleanSymbolName(property.name),
                    in |-> location,
                    required |-> ~split.optional /\ ~property.optional,
                    schema |-> value.s]),
     c |-> value.c]

PutParameter(property, split, location, acc, value) ==
    [ps |-> Append(acc.ps,
                   [name |-> cleanSymbolName(property.name),
                    in |-> location,
                    required |-> IF location = "path" THEN TRUE
                                 ELSE ~split.optional /\ ~property.optional,
                    schema |-> value.s]),
     c |-> value.c]

AddParameter(property, location, acc) ==
    IF cleanSymbolName(property.name) = "" THEN acc
    ELSE PutParameter(property, splitUndefined(property.type), location, acc,
                      getSchemaFor(splitUndefined(property.type).types, acc.c, MaxStack))

ParameterLoop(props, location, acc) ==
    IF props = <<>> THEN acc
    ELSE ParameterLoop(Tail(props), location, AddParameter(Head(props), location, acc))

\* arg is the type argument as a sequence: <<>> when it is undefined
buildParameters(arg, location, comps) ==
    IF arg = <<>> THEN [ps |-> <<>>, c |-> comps]
    ELSE IF IsAnyOrUnknown(arg[1]) \/ NoShape(arg[1]) THEN [ps |-> <<>>, c |-> comps]
    ELSE ParameterLoop(TypeTable[arg[1]].props, location, [ps |-> <<>>, c |-> comps])

\* the characters of [A-Za-z0-9_] that occur in the paths of the model
NameChars == {"a", "b", "d", "i", "x", "_"}

\* the longest run of name characters of s that starts at position i
RECURSIVE NameRun(_, _)
NameRun(s, i) ==
    IF i <= Len(s) /\ s[i] \in NameChars THEN <<s[i]>> \o NameRun(s, i + 1) ELSE <<>>

\* pathValue.match(/:([A-Za-z0-9_]+)/g), each match without its colon
RECURSIVE PathMatches(_, _)
PathMatches(s, i) ==
    IF i > Len(s) THEN <<>>
    ELSE IF s[i] = ":" /\ NameRun(s, i + 1) # <<>>
         THEN <<Str(NameRun(s, i + 1))>> \o PathMatches(s, i + 1 + Len(NameRun(s, i + 1)))
         ELSE PathMatches(s, i + 1)

\* the set pathParams is computed once, before the loop
RECURSIVE BackFill(_, _, _)
BackFill(matches, pathParams, parameters) ==
    IF matches = <<>> THEN parameters
    ELSE BackFill(Tail(matches), pathParams,
                  IF Head(matches) \notin pathParams
                  THEN Append(parameters,
                              [name |-> Head(matches), in |-> "path", required |-> TRUE,
                               schema |-> [type |-> "string"]])
                  ELSE parameters)

addPathParameters(pathValue, parameters) ==
    BackFill(PathMatches(pathValue, 1),
             {parameters[i].name : i \in {j \in DOMAIN parameters : parameters[j].in = "path"}},
             parameters)

isTrivialRequestComponent(arg) ==
    IF arg = <<>> THEN TRUE
    ELSE IF TypeTable[arg[1]].kind \in {"undefined", "unknown", "any", "void", "never"}
    THEN TRUE
    ELSE IF IsUnion(arg[1])
    THEN \A i \in DOMAIN TypeTable[arg[1]].members :
            isTrivialRequestComponent(<<TypeTable[arg[1]].members[i]>>)
    ELSE IsObject(arg[1]) /\ NoShape(arg[1])

\* args.every in the place of args.some
AllNonTrivial(args) == \A i \in DOMAIN args : ~isTrivialRequestComponent(<<args[i]>>)
\* args.some((arg) => !isTrivialRequestComponent(arg))
SomeNonTrivial(args) == \E i \in DOMAIN args : ~isTrivialRequestComponent(<<args[i]>>)

\* requestType is <<>> when the handler type has no second type argument
hasRequestValidation(requestType) ==
    IF requestType = <<>> THEN FALSE
    ELSE IF Len(TypeTable[requestType[1]].args) < 4 THEN FALSE
    ELSE SomeNonTrivial(TypeTable[requestType[1]].args)

\* args[n] as a sequence: <<>> when the argument is missing
ArgAt(args, n) == IF Len(args) >= n THEN <<args[n]>> ELSE <<>>

\* types.filter((t) => !isTrivialRequestComponent(t))
RECURSIVE Meaningful(_)
Meaningful(ts) ==
    IF ts = <<>> THEN <<>>
    ELSE (IF isTrivialRequestComponent(<<Head(ts)>>) THEN <<>> ELSE <<Head(ts)>>)
         \o Meaningful(Tail(ts))

\* a request body that is required whatever the split said
RequestOfAlwaysRequired(parameters, hasBody, optional, body) ==
    [r |-> [parameters |-> parameters]
           @@ (IF hasBody
               THEN [requestBody |-> [required |-> TRUE, schema |-> body.s]]
               ELSE EmptyObj),
     c |-> body.c]

RequestOf(parameters, hasBody, optional, body) ==
    [r |-> [parameters |-> parameters]
           @@ (IF hasBody
               THEN [requestBody |-> [required |-> ~optional, schema |-> body.s]]
               ELSE EmptyObj),
     c |-> body.c]

WithMeaningful(meaningful, optional, pathValue, query) ==
    RequestOf(addPathParameters(pathValue, query.ps), meaningful # <<>>, optional,
              IF meaningful # <<>> THEN getSchemaFor(meaningful, query.c, MaxStack)
              ELSE Leaf(EmptyObj, query.c))

WithBodySplitOf(split, pathValue, query) ==
    WithMeaningful(Meaningful(split.types), split.optional, pathValue, query)

WithBodyArg(bodyArg, pathValue, query) ==
    WithBodySplitOf(IF bodyArg = <<>> THEN [types |-> <<>>, optional |-> FALSE]
                    ELSE splitUndefined(bodyArg[1]),
                    pathValue, query)

Concat(before, after) == [ps |-> before.ps \o after.ps, c |-> after.c]

WithQueryArg(args, pathValue, sofar) ==
    WithBodyArg(ArgAt(args, 4), pathValue,
                Concat(sofar, buildParameters(ArgAt(args, 3), "query", sofar.c)))

WithParamsArg(args, pathValue, header) ==
    WithQueryArg(args, pathValue,
                 Concat(header, buildParameters(ArgAt(args, 2), "path", header.c)))

\* requestType is <<>> when the handler type has no second type argument
extractRequest(requestType, comps, pathValue) ==
    IF requestType = <<>> THEN [r |-> [parameters |-> <<>>], c |-> comps]
    ELSE WithParamsArg(TypeTable[requestType[1]].args, pathValue,
                       buildParameters(ArgAt(TypeTable[requestType[1]].args, 1),
                                       "header", comps))

(***************************************************************************)
(* OpenApiBuilder (openapi-builder.ts).  A ResponseRepresentation is a     *)
(* record with status and description and, when set, schema and headers.   *)
(***************************************************************************)
JsonContent(schema) == "application/json" :> [schema |-> schema]

HasSchema(response) == "schema" \in DOMAIN response
HasHeaders(response) == "headers" \in DOMAIN response

responseRepresentationToObject(response) ==
    [description |-> response.description]
    @@ (IF HasHeaders(response) THEN [headers |-> response.headers] ELSE EmptyObj)
    @@ (IF HasSchema(response) THEN [content |-> JsonContent(response.schema)] ELSE EmptyObj)

\* the clone keeps the status and the description only
cloneResponseWithoutContent(response) ==
    [status |-> response.status, description |-> response.description]

cloneResponse(response) ==
    [status |-> response.status, description |-> response.description]
    @@ (IF HasSchema(response) THEN [schema |-> response.schema] ELSE EmptyObj)
    @@ (IF HasHeaders(response) THEN [headers |-> response.headers] ELSE EmptyObj)

\* responses.find((response) => response.status === status), as a sequence
FirstWithStatus(responses, status) ==
    LET hits == {i \in DOMAIN responses : responses[i].status = status}
    IN  IF hits = {} THEN <<>>
        ELSE <<responses[CHOOSE i \in hits : \A j \in hits : i <= j]>>

\* the answer is a sequence: <<>> when no response has the status
findResponseByStatus(responses, status, description) ==
    IF FirstWithStatus(responses, status) = <<>> THEN <<>>
    ELSE <<[cloneResponse(FirstWithStatus(responses, status)[1])
              EXCEPT !.description = description]>>

HeadersOrEmpty(response) == IF HasHeaders(response) THEN response.headers ELSE EmptyObj

\* the later response takes the place of the earlier one
ReplaceResponse(existing, incoming) == incoming

\* the body of `merge` when the status has an entry already
MergeResponse(existing, incoming) ==
    LET combinedHeaders == HeadersOrEmpty(incoming) @@ HeadersOrEmpty(existing)
        descriptionBase == existing.description
        effectiveDescription ==
            IF descriptionBase # "" /\ descriptionBase # "HTTP " \o incoming.status
            THEN descriptionBase ELSE incoming.description
    IN  [status |-> incoming.status, description |-> effectiveDescription]
        @@ (IF HasSchema(existing) /\ HasSchema(incoming)
            THEN [schema |-> [oneOf |-> <<existing.schema, incoming.schema>>]]
            ELSE IF HasSchema(existing) THEN [schema |-> existing.schema]
            ELSE IF HasSchema(incoming) THEN [schema |-> incoming.schema]
            ELSE EmptyObj)
        @@ (IF DOMAIN combinedHeaders # {} THEN [headers |-> combinedHeaders] ELSE EmptyObj)

\* the entry of a status is never touched again once it is there
mergeKeepsExisting(merged, incoming) ==
    IF incoming.status \notin DOMAIN merged THEN (incoming.status :> incoming) @@ merged
    ELSE merged

merge(merged, incoming) ==
    IF incoming.status \notin DOMAIN merged THEN (incoming.status :> incoming) @@ merged
    ELSE (incoming.status :> MergeResponse(merged[incoming.status], incoming)) @@ merged

\* responses.forEach(merge)
RECURSIVE MergeAll(_, _)
MergeAll(responses, merged) ==
    IF responses = <<>> THEN merged
    ELSE MergeAll(Tail(responses), merge(merged, Head(responses)))

buildResponses(responses) ==
    LET merged == MergeAll(responses, EmptyObj)
    IN  [status \in DOMAIN merged |-> responseRepresentationToObject(merged[status])]

\* String.prototype.toLowerCase on the letters of the method names
LowerChar(c) ==
    CASE c = "G" -> "g" [] c = "E" -> "e" [] c = "T" -> "t"
      [] c = "P" -> "p" [] c = "O" -> "o" [] c = "S" -> "s"
      [] OTHER -> c

toLowerCase(m) == [i \in DOMAIN m |-> LowerChar(m[i])]

\* the characters [A-Za-z0-9] that occur in the paths of the model
AlnumChars == {"a", "b", "d", "i", "x"}

\* pathValue.replace(/[^A-Za-z0-9]+/g, "_")
RECURSIVE Sanitize(_, _)
Sanitize(s, inRun) ==
    IF s = <<>> THEN <<>>
    ELSE IF Head(s) \in AlnumChars THEN <<Head(s)>> \o Sanitize(Tail(s), FALSE)
    ELSE (IF inRun THEN <<>> ELSE <<"_">>) \o Sanitize(Tail(s), TRUE)

\* sanitized.replace(/^_+|_+$/g, "")
RECURSIVE TrimUnderscores(_)
TrimUnderscores(s) ==
    IF s = <<>> THEN <<>>
    ELSE IF Head(s) = "_" THEN TrimUnderscores(Tail(s))
    ELSE IF s[Len(s)] = "_" THEN TrimUnderscores(SubSeq(s, 1, Len(s) - 1))
    ELSE s

createOperationId(method, pathValue) ==
    LET trimmed == TrimUnderscores(Sanitize(pathValue, FALSE))
    IN  Str(toLowerCase(method)) \o "_" \o (IF trimmed = <<>> THEN "root" ELSE Str(trimmed))

\* the operation object written under the method key
OperationObject(operation) ==
    [operationId |-> operation.operationId,
     responses |-> buildResponses(operation.responses)]
    @@ (IF Len(operation.request.parameters) > 0
        THEN [parameters |-> operation.request.parameters] ELSE EmptyObj)
    @@ (IF "requestBody" \in DOMAIN operation.request
        THEN [requestBody |->
                [required |-> operation.request.requestBody.required,
                 content |-> JsonContent(operation.request.requestBody.schema)]]
        ELSE EmptyObj)

\* every operation starts a path item of its own
FreshPathItem(pathsMap, path) == EmptyObj

\* this.paths.get(operation.path) ?? {}
PathItem(pathsMap, path) == IF path \in DOMAIN pathsMap THEN pathsMap[path] ELSE EmptyObj

\* the new value of this.paths; a path is the key as the string it is
addOperation(pathsMap, operation) ==
    (operation.path :>
        ((Str(toLowerCase(operation.method)) :> OperationObject(operation))
         @@ PathItem(pathsMap, operation.path)))
    @@ pathsMap

(***************************************************************************)
(* SpecSchema: any sequence of getSchema calls on one SchemaGenerator      *)
(***************************************************************************)
\* the types tryGenerateSchemaByName hands to the nominal generator
NamedTypes ==
    {t \in TypeIds : /\ DeclaredTypes[t].sym \notin ({""} \cup SyntheticNames)
                     /\ DeclaredTypes[t].named}

\* the pipeline hands getSchema body, header, parameter and property types,
\* never a response envelope or a request type itself
SchemaInputs == {t \in TypeIds : DeclaredTypes[t].sym \notin {"JsonResponse", "JsonRequest"}}

InitSchema ==
    /\ pc = "ready"
    /\ call = NoCall
    /\ components = EmptyObj
    /\ first = EmptyObj
    /\ ncalls = 0
    /\ paths = EmptyObj
    /\ ops = <<>>
    /\ TypeTable = DeclaredTypes
    /\ NoRun

\* one call of getSchema from outside the generator; an uncaught RangeError
\* ends the run
GetSchemaCall ==
    \E t \in SchemaInputs :
        /\ pc \in {"ready", "getSchema"}
        /\ ncalls < MaxCalls
        /\ ncalls' = ncalls + 1
        /\ UNCHANGED <<paths, ops, runVars>>
        /\ LET r == getSchema(t, components, MaxStack)
           IN  IF Threw(r.s)
               THEN /\ pc' = "aborted"
                    /\ call' = [fn |-> "getSchema", type |-> t, repeat |-> t \in DOMAIN first,
                                result |-> StackOverflow]
                    /\ UNCHANGED <<components, first>>
               ELSE /\ pc' = "getSchema"
                    /\ call' = [fn |-> "getSchema", type |-> t, repeat |-> t \in DOMAIN first,
                                result |-> r.s]
                    /\ components' = r.c
                    /\ first' = IF t \in NamedTypes /\ t \notin DOMAIN first
                                THEN (t :> r.s) @@ first ELSE first

NextSchema == GetSchemaCall

SpecSchema == InitSchema /\ [][NextSchema]_vars

\* C1: classifying a named type a second time adds no entry to the component
\* table, leaves every entry as it was, and returns the fragment the first
\* call returned; no call ever overwrites or removes an entry.
C1_SecondClassificationIsIdempotent ==
    [][/\ \A n \in DOMAIN components :
             n \in DOMAIN components' /\ components'[n] = components[n]
       /\ (pc' = "getSchema" /\ call'.type \in DOMAIN first)
             => /\ components' = components
                /\ call'.result = first[call'.type]]_vars

\* User is classified again after it has put User and Address into the table
C1_Witness ==
    /\ pc = "getSchema"
    /\ call.type = "User"
    /\ call.repeat
    /\ DOMAIN components = {"User", "Address"}
    /\ call.result = first["User"]

\* a property of t has type t, or a union with member t
SelfReferential(t) ==
    \E i \in DOMAIN TypeTable[t].props :
        LET P == TypeTable[t].props[i].type
        IN  P = t \/ \E j \in DOMAIN TypeTable[P].members : TypeTable[P].members[j] = t

RefsAfter(s, comps) == Refs(s) \cup UNION {Refs(comps[n]) : n \in DOMAIN comps}

\* C2: getSchema terminates on every type, self-referential named types
\* included, whether or not nominal generation succeeds: the call returns
\* a fragment, and the inner occurrence of a self-referential named type is a
\* `$ref` to that type's own name.
C2_SelfReferenceResolvesToRef ==
    call.fn = "getSchema" =>
        /\ pc # "aborted"
        /\ (call.type \in NamedTypes /\ SelfReferential(call.type))
              => \E r \in RefsAfter(call.result, components) :
                    r[Len(r)] = TypeTable[call.type].sym

\* the object types that reach buildSimpleObjectSchema
BuiltInNames ==
    {"Promise", "Date", "RegExp", "Map", "Set", "Partial", "Required", "Readonly",
     "Pick", "Omit", "Record", "Array", "ReadonlyArray"}

ClassifiedStructurally(t) ==
    /\ IsObject(t)
    /\ TypeTable[t].sym \notin BuiltInNames
    /\ ~(t \in NamedTypes /\ TypeTable[t].sym \in RootTypes)

HasUndefinedMember(P) ==
    IsUnion(P) /\ \E i \in DOMAIN TypeTable[P].members : IsUndefined(TypeTable[P].members[i])

\* the type P with its undefined member removed: T for T | undefined
WithoutUndefined(P) ==
    LET rest == FilterOut(TypeTable[P].members, UndefinedTypes)
    IN  IF ~HasUndefinedMember(P) THEN P
        ELSE IF Len(rest) = 1 THEN rest[1]
        ELSE CHOOSE u \in TypeIds : IsUnion(u) /\ TypeTable[u].members = rest

RequiredOf(schema) == IF "required" \in DOMAIN schema THEN schema.required ELSE <<>>

\* C5: in an object classified structurally, property p of type P is in
\* `required` iff P has no undefined member and p is not declared optional,
\* and the schema stored for p is the schema getSchema gives for P without
\* its undefined member, also when that is a union.
C5_PropertySchemaIsSchemaOfType ==
    (pc = "getSchema" /\ ClassifiedStructurally(call.type)) =>
        \A i \in DOMAIN TypeTable[call.type].props :
            LET p == TypeTable[call.type].props[i]
                name == cleanSymbolName(p.name)
            IN  name # "" =>
                  /\ (\E j \in DOMAIN RequiredOf(call.result) :
                          RequiredOf(call.result)[j] = name)
                        <=> (~HasUndefinedMember(p.type) /\ ~p.optional)
                  /\ call.result.properties[name]
                        = getSchema(WithoutUndefined(p.type), EmptyObj, MaxStack).s

AllMembers(t, kind) ==
    /\ IsUnion(t)
    /\ \A i \in DOMAIN TypeTable[t].members : TypeTable[TypeTable[t].members[i]].kind = kind

LiteralUnion(t) ==
    AllMembers(t, "strlit") \/ AllMembers(t, "numlit") \/ AllMembers(t, "boollit")

EnumSchema(t) ==
    LET values == [i \in DOMAIN TypeTable[t].members |-> TypeTable[TypeTable[t].members[i]].lit]
    IN  IF AllMembers(t, "strlit") THEN [type |-> "string", enum |-> values]
        ELSE IF AllMembers(t, "numlit") THEN [type |-> "number", enum |-> values]
        ELSE [type |-> "boolean"]

\* C6: a union of string literals is classified as one {type: "string",
\* enum: [...]}, one of number literals as {type: "number", enum: [...]}, one
\* of boolean literals as {type: "boolean"}, at top level and as the type of
\* a property alike; never as a oneOf of single-value schemas.
C6_LiteralUnionIsOneEnum ==
    pc = "getSchema" =>
        /\ LiteralUnion(call.type) => call.result = EnumSchema(call.type)
        /\ ClassifiedStructurally(call.type) =>
              \A i \in DOMAIN TypeTable[call.type].props :
                  LET p == TypeTable[call.type].props[i]
                  IN  (LiteralUnion(p.type) /\ cleanSymbolName(p.name) # "")
                        => call.result.properties[cleanSymbolName(p.name)]
                              = EnumSchema(p.type)

(***************************************************************************)
(* SpecJoin: joinPaths applied to arbitrary inputs                         *)
(***************************************************************************)
InitJoin ==
    /\ pc = "input"
    /\ \E base \in PathStrings, segment \in PathStrings :
          call = [fn |-> "joinPaths", base |-> base, segment |-> segment]
    /\ components = EmptyObj
    /\ first = EmptyObj
    /\ ncalls = 0
    /\ paths = EmptyObj
    /\ ops = <<>>
    /\ TypeTable = DeclaredTypes
    /\ NoRun

JoinPathsCall ==
    /\ pc = "input"
    /\ call.fn = "joinPaths"
    /\ pc' = "joinPaths"
    /\ call' = [fn |-> "joinPaths", base |-> call.base, segment |-> call.segment,
                result |-> joinPaths(call.base, call.segment)]
    /\ UNCHANGED <<components, first, ncalls, paths, ops, runVars>>

NextJoin == JoinPathsCall

SpecJoin == InitJoin /\ [][NextJoin]_vars

\* C4: joinPaths returns a string that starts with "/", has no "//", keeps
\* the non-empty components of base followed by those of segment in order,
\* and is "/" when neither argument has a non-slash character; the four
\* examples of the spec give /ping, /utils, /x and /a/b.
C4_JoinPathsNormalises ==
    /\ pc = "joinPaths" =>
        /\ StartsWith(call.result, "/")
        /\ ~HasDoubleSlash(call.result)
        /\ Components(call.result) = Components(call.base) \o Components(call.segment)
        /\ (Components(call.base) = <<>> /\ Components(call.segment) = <<>>)
              => call.result = <<"/">>
    /\ joinPaths(<<"/">>, <<"/", "p", "i", "n", "g">>) = <<"/", "p", "i", "n", "g">>
    /\ joinPaths(<<"/", "u", "t", "i", "l", "s">>, <<"/">>) = <<"/", "u", "t", "i", "l", "s">>
    /\ joinPaths(<<>>, <<"/", "x">>) = <<"/", "x">>
    /\ joinPaths(<<"/", "a", "/">>, <<"/", "b">>) = <<"/", "a", "/", "b">>

\* a base with a trailing slash joined to a segment with a leading slash
C4_Witness ==
    /\ pc = "joinPaths"
    /\ call.base = <<"/", "a", "/">>
    /\ call.segment = <<"/", "b">>
    /\ call.result = <<"/", "a", "/", "b">>

(***************************************************************************)
(* SpecRequest: extractRequest applied to a request type and a rendered    *)
(* path, the path being what traverseRoutes hands over: a parent's         *)
(* rendered path joined to a child's path literal.                         *)
(***************************************************************************)
SegmentAlphabet == {"/", ":", "i", "d", "x"}
SegmentStrings == UNION {[1..n -> SegmentAlphabet] : n \in 0..MaxLen}
ParentPaths == {<<>>, <<"/">>, <<"/", ":", "i", "d">>, <<"/", ":", "x">>, <<"/", "d">>}
\* the request types of the oracle, and <<>> for a handler without one
RequestTypes == {<<t>> : t \in {u \in TypeIds : DeclaredTypes[u].sym = "JsonRequest"}} \cup {<<>>}

InitRequest ==
    /\ pc = "input"
    /\ \E base \in ParentPaths, segment \in SegmentStrings, requestType \in RequestTypes :
          call = [fn |-> "extractRequest", type |-> requestType,
                  path |-> joinPaths(base, segment)]
    /\ components = EmptyObj
    /\ first = EmptyObj
    /\ ncalls = 0
    /\ paths = EmptyObj
    /\ ops = <<>>
    /\ TypeTable = DeclaredTypes
    /\ NoRun

StoreRequest(e) ==
    /\ pc' = "extractRequest"
    /\ call' = [fn |-> "extractRequest", type |-> call.type, path |-> call.path,
                result |-> e.r]
    /\ components' = e.c

ExtractRequestCall ==
    /\ pc = "input"
    /\ call.fn = "extractRequest"
    /\ StoreRequest(extractRequest(call.type, components, call.path))
    /\ UNCHANGED <<first, ncalls, paths, ops, runVars>>

NextRequest == ExtractRequestCall

SpecRequest == InitRequest /\ [][NextRequest]_vars

\* the names that follow a colon in the path
Placeholders(path) ==
    {Str(NameRun(path, i + 1)) : i \in {j \in DOMAIN path : path[j] = ":"}} \ {""}

\* the property names of the path-params argument of the request type
DeclaredPathParams(requestType) ==
    IF requestType = <<>> THEN {}
    ELSE LET args == TypeTable[requestType[1]].args
         IN  IF Len(args) < 2 THEN {}
             ELSE {TypeTable[args[2]].props[i].name : i \in DOMAIN TypeTable[args[2]].props}

PathEntries(parameters, n) ==
    {j \in DOMAIN parameters : parameters[j].in = "path" /\ parameters[j].name = n}

\* C7: for a handler that has a request type, the parameter list
\* extractRequest returns holds every declared path-parameter name and every
\* :name placeholder of the path exactly once among its in = "path" entries;
\* an undeclared placeholder is a required parameter with schema
\* {type: "string"}.
C7_PathParametersExactlyOnce ==
    (pc = "extractRequest" /\ call.type # <<>>) =>
        /\ \A n \in DeclaredPathParams(call.type) \cup Placeholders(call.path) :
              Cardinality(PathEntries(call.result.parameters, n)) = 1
        /\ \A n \in Placeholders(call.path) \ DeclaredPathParams(call.type) :
              \A j \in PathEntries(call.result.parameters, n) :
                 /\ call.result.parameters[j].required
                 /\ call.result.parameters[j].schema = [type |-> "string"]

(***************************************************************************)
(* SpecResponses: addOperation on a new builder, for an operation with an  *)
(* arbitrary list of responses (declared ones followed by injected ones).  *)
(***************************************************************************)
\* the longest response list of one operation
MaxResponses == 2

SchemaA == [type |-> "string"]
SchemaB == [type |-> "number"]
HeadersA == "x-id" :> [required |-> TRUE, schema |-> [type |-> "string"]]
HeadersB == ("x-id" :> [required |-> FALSE, schema |-> [type |-> "number"]])
            @@ ("etag" :> [required |-> TRUE, schema |-> [type |-> "string"]])

ResponseSet ==
    {[status |-> st, description |-> de] @@ sc @@ hd :
        st \in {"200", "400"},
        de \in {"HTTP 200", "HTTP 400", "Validation Error"},
        sc \in {EmptyObj, [schema |-> SchemaA], [schema |-> SchemaB]},
        hd \in {EmptyObj, [headers |-> HeadersA], [headers |-> HeadersB]}}

ResponseLists == UNION {[1..n -> ResponseSet] : n \in 0..MaxResponses}

GetMethod == <<"G", "E", "T">>
RootPath == <<"/">>

InitResponses ==
    /\ pc = "input"
    /\ \E responses \in ResponseLists :
          call = [fn |-> "addOperation",
                  operation |-> [method |-> GetMethod, path |-> RootPath,
                                 operationId |-> createOperationId(GetMethod, RootPath),
                                 request |-> [parameters |-> <<>>],
                                 responses |-> responses]]
    /\ components = EmptyObj
    /\ first = EmptyObj
    /\ ncalls = 0
    /\ paths = EmptyObj
    /\ ops = <<>>
    /\ TypeTable = DeclaredTypes
    /\ NoRun

AddOperationCall ==
    /\ pc = "input"
    /\ call.fn = "addOperation"
    /\ pc' = "addOperation"
    /\ paths' = addOperation(paths, call.operation)
    /\ ops' = Append(ops, call.operation)
    /\ UNCHANGED <<call, components, first, ncalls, runVars>>

NextResponses == AddOperationCall

SpecResponses == InitResponses /\ [][NextResponses]_vars

\* the positions of the responses of a list that have the status
WithStatus(responses, status) == {i \in DOMAIN responses : responses[i].status = status}
WithBody(responses, status) ==
    {i \in WithStatus(responses, status) : "schema" \in DOMAIN responses[i]}

\* the responses map written for the operation added last
WrittenResponses == paths[call.operation.path][Str(toLowerCase(call.operation.method))].responses

\* C9: the responses map of an added operation has exactly one entry per
\* distinct status among the operation's responses; when two responses of a
\* status carry a body schema the entry's schema is oneOf [earlier, later];
\* when one carries a body the entry has that body; when none does the
\* entry has no content.
C9_ResponsesMergedPerStatus ==
    pc = "addOperation" =>
        LET rs == call.operation.responses
            \* the body schema of the entry as a sequence, <<>> without content
            bodySchema(status) ==
                IF "content" \in DOMAIN WrittenResponses[status]
                THEN <<WrittenResponses[status].content["application/json"].schema>>
                ELSE <<>>
        IN  /\ DOMAIN WrittenResponses = {rs[i].status : i \in DOMAIN rs}
            /\ \A status \in DOMAIN WrittenResponses :
                  /\ WithBody(rs, status) = {} => bodySchema(status) = <<>>
                  /\ \A i \in WithBody(rs, status) :
                        WithBody(rs, status) = {i} => bodySchema(status) = <<rs[i].schema>>
                  /\ \A i, j \in WithBody(rs, status) :
                        (i < j /\ WithBody(rs, status) = {i, j})
                           => bodySchema(status)
                                 = <<[oneOf |-> <<rs[i].schema, rs[j].schema>>]>>

\* a handler's own 400 body followed by the injected validation-error body
C9_Witness ==
    /\ pc = "addOperation"
    /\ Len(call.operation.responses) = 2
    /\ call.operation.responses[1] =
          [status |-> "400", description |-> "HTTP 400", schema |-> SchemaA]
    /\ call.operation.responses[2] =
          [status |-> "400", description |-> "Validation Error", schema |-> SchemaB]
    /\ DOMAIN WrittenResponses = {"400"}
    /\ WrittenResponses["400"].content["application/json"].schema
          = [oneOf |-> <<SchemaA, SchemaB>>]

(***************************************************************************)
(* SpecBuilder: any sequence of addOperation calls on one builder          *)
(***************************************************************************)
\* number of addOperation calls in one behaviour of SpecBuilder
MaxOps == 3

Methods == {<<"G", "E", "T">>, <<"g", "e", "t">>, <<"p", "o", "s", "t">>}
BuilderPaths == {<<"/">>, <<"/", "a">>}
BuilderResponses ==
    {<<>>, <<[status |-> "200", description |-> "HTTP 200", schema |-> SchemaA]>>}

InitBuilder ==
    /\ pc = "ready"
    /\ call = NoCall
    /\ components = EmptyObj
    /\ first = EmptyObj
    /\ ncalls = 0
    /\ paths = EmptyObj
    /\ ops = <<>>
    /\ TypeTable = DeclaredTypes
    /\ NoRun

Added(operation) ==
    /\ pc' = "addOperation"
    /\ call' = [fn |-> "addOperation", operation |-> operation]
    /\ paths' = addOperation(paths, operation)
    /\ ops' = Append(ops, operation)

AddOperationStep ==
    /\ pc \in {"ready", "addOperation"}
    /\ Len(ops) < MaxOps
    /\ \E method \in Methods, path \in BuilderPaths, responses \in BuilderResponses :
          Added([method |-> method, path |-> path,
                 operationId |-> createOperationId(method, path),
                 request |-> [parameters |-> <<>>],
                 responses |-> responses])
    /\ UNCHANGED <<components, first, ncalls, runVars>>

NextBuilder == AddOperationStep

SpecBuilder == InitBuilder /\ [][NextBuilder]_vars

\* the lower-cased methods of the operations added for a path so far
MethodsAdded(path) ==
    {Str(toLowerCase(ops[i].method)) : i \in {j \in DOMAIN ops : ops[j].path = path}}

\* C10: after any sequence of addOperation calls the paths tree has the
\* paths that were added, and the method keys under a path are exactly the
\* lower-cased methods added for that path (one operation object per key).
C10_OneOperationPerKey ==
    /\ DOMAIN paths = {ops[i].path : i \in DOMAIN ops}
    /\ \A path \in DOMAIN paths :
          /\ DOMAIN paths[path] = MethodsAdded(path)
          /\ \A key \in DOMAIN paths[path] : "responses" \in DOMAIN paths[path][key]

\* GET and get added for one path share a key, post has its own
C10_Witness ==
    /\ Len(ops) = 3
    /\ \A i \in DOMAIN ops : ops[i].path = <<"/", "a">>
    /\ {ops[i].method : i \in DOMAIN ops} = Methods
    /\ DOMAIN paths[<<"/", "a">>] = {"get", "post"}

(***************************************************************************)
(* Spec: one run of main (index.ts) on an application.  The route tree is  *)
(* what the Type Oracle answers for the type arguments of the nodes.       *)
(***************************************************************************)
Handler(name, responseType, requestType) ==
    [name |-> name, args |-> <<responseType, requestType>>]
\* JsonRouteNode<path, handlers, children[]>
Node(path, handlers, children) ==
    [nargs |-> 3, pathArg |-> [literal |-> TRUE, value |-> path], handlers |-> handlers,
     childrenArg |-> [array |-> TRUE, elems |-> children]]
\* a node built without children: the children argument is the empty tuple
LeafNode(path, handlers) ==
    [nargs |-> 3, pathArg |-> [literal |-> TRUE, value |-> path], handlers |-> handlers,
     childrenArg |-> [array |-> FALSE, elems |-> <<>>]]

Get == <<"g", "e", "t">>
Post == <<"p", "o", "s", "t">>

NodeTable ==
    ("api" :> Node(<<"/">>,
                   <<Handler(Get, "Json<200,{message}>", "Request<>")>>,
                   <<"a", "b">>)) @@
    ("a" :> Node(<<"/", "a">>,
                 <<Handler(Get, "Json<200,User,{x-id}>", "Request<query>"),
                   Handler(Post, "Promise<Json<200>|Json<400>>", "Request<body>")>>,
                 <<"byId">>)) @@
    ("byId" :> LeafNode(<<"/", ":", "i", "d">>,
                 <<Handler(Get, "Promise<Json<200>>|Json<204>", "Request<params>"),
                   Handler(Post, "Json<200,{message}>", "Request<all>")>>)) @@
    ("b" :> LeafNode(<<"b", "/">>,
                 <<Handler(Get, "Json<204>", "Request<{},{},{},undefined>")>>)) @@
    \* a path argument that is no string literal, and a child that is no node
    ("plain" :> [nargs |-> 3, pathArg |-> [literal |-> FALSE, value |-> <<>>],
                 handlers |-> <<Handler(Get, "Json<number,{message}>", "Request<>")>>,
                 childrenArg |-> [array |-> TRUE, elems |-> <<"short">>]]) @@
    ("short" :> [nargs |-> 2, pathArg |-> [literal |-> TRUE, value |-> <<"/">>],
                 handlers |-> <<>>,
                 childrenArg |-> [array |-> FALSE, elems |-> <<>>]]) @@
    ("solo" :> Node(<<"/">>, <<>>, <<"b">>)) @@
    \* a handler that declares a 404 of its own, two children whose paths
    \* differ in a colon only, and two children whose paths render alike
    ("dup" :> Node(<<"/">>,
                   <<Handler(Get, "Json<200>|Json<404>", "Request<>")>>,
                   <<"id", "colonId", "idAgain">>)) @@
    ("id" :> LeafNode(<<"/", "i", "d">>,
                 <<Handler(Get, "Json<200,{message}>", "Request<>")>>)) @@
    ("colonId" :> LeafNode(<<"/", ":", "i", "d">>,
                 <<Handler(Get, "Json<204>", "Request<params>")>>)) @@
    ("idAgain" :> LeafNode(<<"i", "d">>,
                 <<Handler(Get, "Json<204>", "Request<>")>>))

Roots == {"api", "plain", "solo", "dup"}
InternalErrorTypes == {"Json<500,{error}>", "Json<503,{error}>", "undefined"}
ValidationErrorTypes == {"Json<400,{issues}>", "Json<503,{error}>", "undefined"}

Apps ==
    {[tsconfig |-> tc, sourceFile |-> sf, variable |-> va, nargs |-> n, root |-> r,
      internal |-> i, notFound |-> "Json<404,{error}>",
      methodNotAllowed |-> "Json<405,{error}>", validation |-> v] :
        tc \in BOOLEAN, sf \in BOOLEAN, va \in BOOLEAN, n \in {4, 5}, r \in Roots,
        i \in InternalErrorTypes, v \in ValidationErrorTypes}

Init ==
    /\ TypeTable = DeclaredTypes
    /\ pc = "start"
    /\ call = NoCall
    /\ components = EmptyObj
    /\ first = EmptyObj
    /\ ncalls = 0
    /\ paths = EmptyObj
    /\ ops = <<>>
    /\ app \in Apps
    /\ errors = NoErrors
    /\ stack = <<>>
    /\ output = <<>>
    /\ exitCode = 0

\* an error reaches main().catch: nothing more is done
Fails(message) ==
    /\ pc' = "failed"
    /\ call' = [fn |-> "console.error", message |-> message]
    /\ exitCode' = IF exitCode = 0 THEN 1 ELSE exitCode

\* main up to the type arguments of the application
LoadApp ==
    /\ pc = "start"
    /\ IF ~app.tsconfig THEN Fails("Unable to find tsconfig.json")
       ELSE IF ~app.sourceFile THEN Fails("Unable to find source file")
       ELSE IF ~app.variable THEN Fails("Variable not found")
       ELSE IF app.nargs < 5 THEN Fails("does not appear to be an XPRVApp instance")
       ELSE /\ pc' = "loaded"
            /\ UNCHANGED <<call, exitCode>>
    /\ UNCHANGED <<TypeTable, components, first, ncalls, paths, ops, app, errors, stack, output>>

ThrewInHeaders(headers) == \E h \in DOMAIN headers : Threw(headers[h].schema)

ThrewInResponses(responses) ==
    \E i \in DOMAIN responses :
        \/ HasSchema(responses[i]) /\ Threw(responses[i].schema)
        \/ HasHeaders(responses[i]) /\ ThrewInHeaders(responses[i].headers)

ThrewInRequest(request) ==
    \/ \E i \in DOMAIN request.parameters : Threw(request.parameters[i].schema)
    \/ "requestBody" \in DOMAIN request /\ Threw(request.requestBody.schema)

\* findResponseByStatus(responses, "500", ...) ?? clone of the first response
InternalOf(responses) ==
    IF findResponseByStatus(responses, "500", "Internal Server Error") # <<>>
    THEN findResponseByStatus(responses, "500", "Internal Server Error")
    ELSE IF responses # <<>> THEN <<cloneResponse(responses[1])>> ELSE <<>>

Selected(internal, validation, notFound, methodNotAllowed) ==
    IF ThrewInResponses(internal.rs \o validation.rs \o notFound.rs \o methodNotAllowed.rs)
    THEN /\ Fails("Maximum call stack size exceeded")
         /\ UNCHANGED <<components, errors, stack>>
    ELSE /\ errors' =
              [internal |-> InternalOf(internal.rs),
               validation |-> findResponseByStatus(validation.rs, "400", "Validation Error"),
               notFound |-> findResponseByStatus(notFound.rs, "404", "Not Found"),
               methodNotAllowed |->
                   findResponseByStatus(methodNotAllowed.rs, "405", "Method Not Allowed")]
         /\ components' = methodNotAllowed.c
         /\ stack' = <<[node |-> app.root, base |-> <<>>, path |-> <<>>, entered |-> FALSE,
                        h |-> 1, c |-> 1]>>
         /\ pc' = "traverse"
         /\ UNCHANGED <<call, exitCode>>

ThenMethodNotAllowed(internal, validation, notFound) ==
    Selected(internal, validation, notFound,
             extractResponses(app.methodNotAllowed, notFound.c))

ThenNotFound(internal, validation) ==
    ThenMethodNotAllowed(internal, validation, extractResponses(app.notFound, validation.c))

ThenValidation(internal) ==
    ThenNotFound(internal, extractResponses(app.validation, internal.c))

\* main: the four extractResponses calls, the selection of the error
\* responses and the call of traverseRoutes on the root node
ExtractErrorResponses ==
    /\ pc = "loaded"
    /\ ThenValidation(extractResponses(app.internal, components))
    /\ UNCHANGED <<TypeTable, first, ncalls, paths, ops, app, output>>

getLiteralString(pathArg) == IF pathArg.literal THEN <<pathArg.value>> ELSE <<>>

\* a node type is taken as it is, whatever the number of its type arguments
collectAnyNodeInfo(node) ==
    [threw |-> FALSE,
     path |-> IF getLiteralString(NodeTable[node].pathArg) # <<>>
              THEN getLiteralString(NodeTable[node].pathArg)[1] ELSE <<"/">>,
     handlers |-> NodeTable[node].handlers,
     children |-> IF NodeTable[node].childrenArg.array
                  THEN NodeTable[node].childrenArg.elems ELSE <<>>]

\* threw: the node type has fewer than three type arguments
collectNodeInfo(node) ==
    [threw |-> NodeTable[node].nargs < 3,
     path |-> IF getLiteralString(NodeTable[node].pathArg) # <<>>
              THEN getLiteralString(NodeTable[node].pathArg)[1] ELSE <<"/">>,
     handlers |-> NodeTable[node].handlers,
     children |-> IF NodeTable[node].childrenArg.array
                  THEN NodeTable[node].childrenArg.elems ELSE <<>>]

Top == stack[Len(stack)]
ReplaceTop(frame) == [stack EXCEPT ![Len(stack)] = frame]

\* traverseRoutes with currentPath = info.path: the base path is dropped
EnterNodeWithoutBase ==
    /\ pc = "traverse"
    /\ stack # <<>>
    /\ ~Top.entered
    /\ IF collectNodeInfo(Top.node).threw
       THEN /\ Fails("Invalid JsonRouteNode type encountered while building OpenAPI document")
            /\ UNCHANGED stack
       ELSE /\ stack' = ReplaceTop([Top EXCEPT !.entered = TRUE,
                                       !.path = joinPaths(<<>>,
                                                          collectNodeInfo(Top.node).path)])
            /\ UNCHANGED <<pc, call, exitCode>>
    /\ UNCHANGED <<TypeTable, components, first, ncalls, paths, ops, app, errors, output>>

\* traverseRoutes, first two statements
EnterNode ==
    /\ pc = "traverse"
    /\ stack # <<>>
    /\ ~Top.entered
    /\ IF collectNodeInfo(Top.node).threw
       THEN /\ Fails("Invalid JsonRouteNode type encountered while building OpenAPI document")
            /\ UNCHANGED stack
       ELSE /\ stack' = ReplaceTop([Top EXCEPT !.entered = TRUE,
                                       !.path = joinPaths(Top.base,
                                                          collectNodeInfo(Top.node).path)])
            /\ UNCHANGED <<pc, call, exitCode>>
    /\ UNCHANGED <<TypeTable, components, first, ncalls, paths, ops, app, errors, output>>

\* the not-found and method-not-allowed responses are appended as well
WithAllInjected(responses, requestType, internal, validation) ==
    responses
    \o (IF internal # <<>> THEN <<cloneResponse(internal[1])>> ELSE <<>>)
    \o (IF validation # <<>> /\ hasRequestValidation(requestType)
        THEN <<cloneResponse(validation[1])>> ELSE <<>>)
    \o (IF errors.notFound # <<>> THEN <<cloneResponse(errors.notFound[1])>> ELSE <<>>)
    \o (IF errors.methodNotAllowed # <<>>
        THEN <<cloneResponse(errors.methodNotAllowed[1])>> ELSE <<>>)

\* the responses of a handler followed by the injected error responses
WithInjected(responses, requestType, internal, validation) ==
    responses
    \o (IF internal # <<>> THEN <<cloneResponse(internal[1])>> ELSE <<>>)
    \o (IF validation # <<>> /\ hasRequestValidation(requestType)
        THEN <<cloneResponse(validation[1])>> ELSE <<>>)

OperationOf(handler, path, responses, request) ==
    [method |-> handler.name, path |-> path,
     operationId |-> createOperationId(handler.name, path),
     request |-> request, responses |-> responses]

Emitted(handler, operation, comps) ==
    IF ThrewInResponses(operation.responses) \/ ThrewInRequest(operation.request)
    THEN /\ Fails("Maximum call stack size exceeded")
         /\ UNCHANGED <<components, paths, ops, stack>>
    ELSE /\ call' = [fn |-> "addOperation", handler |-> handler, operation |-> operation]
         /\ components' = comps
         /\ paths' = addOperation(paths, operation)
         /\ ops' = Append(ops, operation)
         /\ stack' = ReplaceTop([Top EXCEPT !.h = Top.h + 1])
         /\ UNCHANGED <<pc, exitCode>>

ThenRequest(handler, responses, request) ==
    Emitted(handler,
            OperationOf(handler, Top.path,
                        WithInjected(responses.rs, ArgAt(handler.args, 2),
                                     errors.internal, errors.validation),
                        request.r),
            request.c)

ThenResponses(handler, responses) ==
    ThenRequest(handler, responses,
                extractRequest(ArgAt(handler.args, 2), responses.c, Top.path))

\* traverseRoutes, one iteration of the loop over the handlers
EmitOperation ==
    /\ pc = "traverse"
    /\ stack # <<>>
    /\ Top.entered
    /\ Top.h <= Len(collectNodeInfo(Top.node).handlers)
    /\ ThenResponses(collectNodeInfo(Top.node).handlers[Top.h],
                     IF Len(collectNodeInfo(Top.node).handlers[Top.h].args) >= 1
                     THEN extractResponses(
                              collectNodeInfo(Top.node).handlers[Top.h].args[1], components)
                     ELSE [rs |-> <<>>, c |-> components])
    /\ UNCHANGED <<TypeTable, first, ncalls, app, errors, output>>

\* traverseRoutes, one iteration of the loop over the children: the call
CallChild ==
    /\ pc = "traverse"
    /\ stack # <<>>
    /\ Top.entered
    /\ Top.h > Len(collectNodeInfo(Top.node).handlers)
    /\ Top.c <= Len(collectNodeInfo(Top.node).children)
    /\ stack' = Append(ReplaceTop([Top EXCEPT !.c = Top.c + 1]),
                       [node |-> collectNodeInfo(Top.node).children[Top.c],
                        base |-> Top.path, path |-> <<>>, entered |-> FALSE,
                        h |-> 1, c |-> 1])
    /\ UNCHANGED <<TypeTable, pc, call, components, first, ncalls, paths, ops, app, errors,
                   output, exitCode>>

\* traverseRoutes returns to its caller
ReturnFromNode ==
    /\ pc = "traverse"
    /\ stack # <<>>
    /\ Top.entered
    /\ Top.h > Len(collectNodeInfo(Top.node).handlers)
    /\ Top.c > Len(collectNodeInfo(Top.node).children)
    /\ stack' = SubSeq(stack, 1, Len(stack) - 1)
    /\ UNCHANGED <<TypeTable, pc, call, components, first, ncalls, paths, ops, app, errors,
                   output, exitCode>>

ResponseComponents ==
    (IF errors.notFound # <<>>
     THEN [NotFound |-> responseRepresentationToObject(errors.notFound[1])] ELSE EmptyObj)
    @@ (IF errors.methodNotAllowed # <<>>
        THEN [MethodNotAllowed |-> responseRepresentationToObject(errors.methodNotAllowed[1])]
        ELSE EmptyObj)
    @@ (IF errors.validation # <<>>
        THEN [ValidationError |-> responseRepresentationToObject(errors.validation[1])]
        ELSE EmptyObj)

openApiDocument ==
    [openapi |-> "3.1.0",
     info |-> [title |-> "app", version |-> "1.0.0"],
     paths |-> paths,
     components |-> [schemas |-> components]
                    @@ (IF DOMAIN ResponseComponents # {}
                        THEN [responses |-> ResponseComponents] ELSE EmptyObj)]

\* main after traverseRoutes has returned: the document is built and written
WriteDocument ==
    /\ pc = "traverse"
    /\ stack = <<>>
    /\ pc' = "done"
    /\ output' = <<openApiDocument>>
    /\ call' = [fn |-> "console.log", message |-> "Wrote OpenAPI document"]
    /\ UNCHANGED <<TypeTable, components, first, ncalls, paths, ops, app, errors, stack,
                   exitCode>>

Next ==
    \/ LoadApp
    \/ ExtractErrorResponses
    \/ EnterNode
    \/ EmitOperation
    \/ CallChild
    \/ ReturnFromNode
    \/ WriteDocument

Spec == Init /\ [][Next]_vars

\* the schema fragments of a response object
ResponseObjectSchemas(response) ==
    (IF "content" \in DOMAIN response
     THEN {response.content["application/json"].schema} ELSE {})
    \cup (IF "headers" \in DOMAIN response
          THEN {response.headers[h].schema : h \in DOMAIN response.headers} ELSE {})

\* the schema fragments of an operation object
OperationSchemas(op) ==
    UNION {ResponseObjectSchemas(op.responses[st]) : st \in DOMAIN op.responses}
    \cup (IF "parameters" \in DOMAIN op
          THEN {op.parameters[i].schema : i \in DOMAIN op.parameters} ELSE {})
    \cup (IF "requestBody" \in DOMAIN op
          THEN {op.requestBody.content["application/json"].schema} ELSE {})

\* every schema fragment of a document: under paths, under
\* components.responses and under components.schemas
DocumentSchemas(doc) ==
    UNION {UNION {OperationSchemas(doc.paths[p][m]) : m \in DOMAIN doc.paths[p]} :
              p \in DOMAIN doc.paths}
    \cup (IF "responses" \in DOMAIN doc.components
          THEN UNION {ResponseObjectSchemas(doc.components.responses[n]) :
                         n \in DOMAIN doc.components.responses}
          ELSE {})
    \cup {doc.components.schemas[n] : n \in DOMAIN doc.components.schemas}

DocumentRefs(doc) == UNION {Refs(s) : s \in DocumentSchemas(doc)}

\* the JSON pointer names a location of the value
RECURSIVE Resolves(_, _)
Resolves(value, pointer) ==
    \/ pointer = <<>>
    \/ /\ Head(pointer) \in DOMAIN value
       /\ Resolves(value[Head(pointer)], Tail(pointer))

\* C3: in the document that is written, every `$ref` of every schema
\* fragment (under paths, components.responses and components.schemas)
\* names a location that exists in the document, and that location is the
\* entry of the component table, components.schemas, for the named type.
C3_DocumentIsReferentiallyConsistent ==
    pc = "done" =>
        \A r \in DocumentRefs(output[1]) :
            /\ Resolves(output[1], r)
            /\ Len(r) = 3
            /\ SubSeq(r, 1, 2) = <<"components", "schemas">>

\* the request type of the handler has a non-trivial headers, path-params,
\* query or body argument
NonTrivialRequest(handler) ==
    /\ Len(handler.args) >= 2
    /\ \E i \in DOMAIN TypeTable[handler.args[2]].args :
          ~isTrivialRequestComponent(<<TypeTable[handler.args[2]].args[i]>>)

Received(operation, response) ==
    \E i \in DOMAIN operation.responses : operation.responses[i] = response[1]

\* C8: with an internal-error and a validation-error response configured,
\* every operation traverseRoutes emits has the internal-error response, and
\* has the validation-error response exactly when an argument of the
\* handler's request type is non-trivial.
C8_ErrorResponsesInjected ==
    (/\ call.fn = "addOperation"
     /\ app # NoApp
     /\ errors.internal # <<>>
     /\ errors.validation # <<>>) =>
        /\ Received(call.operation, errors.internal)
        /\ Received(call.operation, errors.validation) <=> NonTrivialRequest(call.handler)
        /\ paths[call.operation.path][Str(toLowerCase(call.operation.method))]
              = OperationObject(call.operation)

\* an operation whose request has a body only received both responses, after
\* an operation with an all-trivial request received the internal one only
C8_Witness ==
    /\ call.fn = "addOperation"
    /\ app # NoApp
    /\ errors.internal # <<>>
    /\ errors.validation # <<>>
    /\ call.handler.args[2] = "Request<body>"
    /\ Received(call.operation, errors.internal)
    /\ Received(call.operation, errors.validation)
    /\ \E i \in DOMAIN ops :
          /\ ops[i].path = <<"/">>
          /\ Received(ops[i], errors.internal)
          /\ ~Received(ops[i], errors.validation)

(***************************************************************************)
(* Claims about the whole run                                              *)
(***************************************************************************)
\* the nodes of the tree below a node, the node included
RECURSIVE TreeNodes(_)
TreeNodes(node) ==
    {node} \cup
    (IF NodeTable[node].childrenArg.array
     THEN UNION {TreeNodes(NodeTable[node].childrenArg.elems[i]) :
                    i \in DOMAIN NodeTable[node].childrenArg.elems}
     ELSE {})

\* the application raises one of the fatal errors of main or of the traversal
RaisesFatalError(a) ==
    \/ ~a.tsconfig
    \/ ~a.sourceFile
    \/ ~a.variable
    \/ a.nargs < 5
    \/ \E node \in TreeNodes(a.root) : NodeTable[node].nargs < 3

\* C11: a run that raises a fatal error (no tsconfig, no source file, no
\* variable, fewer than 5 application type arguments, a route node with
\* fewer than 3 type arguments at any depth) never writes the output file;
\* when it has failed the message is printed and the exit code is 1; the
\* file is written only once the traversal has returned without error.
C11_FatalErrorWritesNothing ==
    /\ RaisesFatalError(app) => output = <<>>
    /\ pc = "failed" => (output = <<>> /\ exitCode = 1 /\ call.fn = "console.error")
    /\ output # <<>> => (pc = "done" /\ stack = <<>> /\ exitCode = 0)

\* the traversal failed on a node below the root after an operation of the
\* root had been added
C11_Witness ==
    /\ pc = "failed"
    /\ app.root = "plain"
    /\ Len(ops) = 1
    /\ Len(stack) = 2
    /\ output = <<>>
    /\ exitCode = 1

\* the kinds of type the structural rules of getSchema name
RuleKinds ==
    {"never", "any", "unknown", "void", "null", "undefined", "boolean", "number", "string",
     "strlit", "numlit", "boollit", "bigint", "symbol", "bigintlit", "tuple", "array", "intersection", "union",
     "object"}

\* C12: no getSchema call aborts the run; when nominal generation gives
\* nothing for the type the fragment returned is the one of the structural
\* rules, and it is the empty schema for a type no rule names.
C12_GetSchemaNeverAborts ==
    /\ pc # "aborted"
    /\ (pc = "getSchema" /\ ~tryGenerateSchemaByName(call.type, components).ok) =>
          /\ call.result = StructuralSchema(call.type, components, MaxStack - 1).s
          /\ TypeTable[call.type].kind \notin RuleKinds => call.result = EmptyObj

(***************************************************************************)
(* SpecExtract: extractResponses applied to one declared response type of  *)
(* the oracle, with an empty components map as at the start of main.       *)
(***************************************************************************)
ResponseTypes == TypeIds

InitExtract ==
    /\ pc = "input"
    /\ \E responseType \in ResponseTypes :
          call = [fn |-> "extractResponses", type |-> responseType]
    /\ components = EmptyObj
    /\ first = EmptyObj
    /\ ncalls = 0
    /\ paths = EmptyObj
    /\ ops = <<>>
    /\ TypeTable = DeclaredTypes
    /\ NoRun

StoreResponses(e) ==
    /\ pc' = "extractResponses"
    /\ call' = [fn |-> "extractResponses", type |-> call.type, result |-> e.rs]
    /\ components' = e.c

ExtractResponsesCall ==
    /\ pc = "input"
    /\ call.fn = "extractResponses"
    /\ StoreResponses(extractResponses(call.type, components))
    /\ UNCHANGED <<first, ncalls, paths, ops, runVars>>

NextExtract == ExtractResponsesCall

SpecExtract == InitExtract /\ [][NextExtract]_vars

\* the envelope leaves below a type, through unions and Promise wrappers,
\* in declaration order
RECURSIVE EnvelopeLeaves(_), LeavesOfAll(_)
LeavesOfAll(ts) ==
    IF ts = <<>> THEN <<>> ELSE EnvelopeLeaves(ts[1]) \o LeavesOfAll(Tail(ts))

EnvelopeLeaves(t) ==
    CASE TypeTable[t].kind = "union" -> LeavesOfAll(TypeTable[t].members)
      [] TypeTable[t].kind # "union" /\ TypeTable[t].sym = "Promise" ->
            LeavesOfAll(TypeTable[t].args)
      [] TypeTable[t].kind # "union" /\ TypeTable[t].sym = "JsonResponse" -> <<t>>
      [] OTHER -> <<>>

\* the entry an envelope leaf stands for: its status and whether it has a body
EntryKey(r) == <<r.status, "schema" \in DOMAIN r, "headers" \in DOMAIN r>>
LeafKey(t) ==
    <<StatusOf(TypeTable[t].args), HasBody(BodySplit(TypeTable[t].args).types),
      Len(TypeTable[t].args) >= 3 /\ TypeTable[TypeTable[t].args[3]].props # <<>>>>

\* C13: extractResponses returns exactly one entry for each JsonResponse leaf
\* reachable from the response type through unions and Promise wrappers, no
\* entry for any other leaf, and its loop ends with a result on every type of
\* the oracle.
C13_OneEntryPerEnvelopeLeaf ==
    pc = "extractResponses" =>
        /\ "result" \in DOMAIN call
        /\ Len(call.result) = Len(EnvelopeLeaves(call.type))
        /\ \A key \in {EntryKey(call.result[i]) : i \in DOMAIN call.result}
                 \cup {LeafKey(EnvelopeLeaves(call.type)[i]) :
                          i \in DOMAIN EnvelopeLeaves(call.type)} :
              Cardinality({i \in DOMAIN call.result : EntryKey(call.result[i]) = key})
              = Cardinality({i \in DOMAIN EnvelopeLeaves(call.type) :
                               LeafKey(EnvelopeLeaves(call.type)[i]) = key})

\* a union of a doubly wrapped union and an envelope: three envelope leaves
C13_Witness ==
    /\ pc = "extractResponses"
    /\ call.type = "Promise<Promise<Json<200>>|Json<204>>|Json<404>"
    /\ Len(call.result) = 3
    /\ {call.result[i].status : i \in DOMAIN call.result} = {"200", "204", "404"}

\* the loop of extractResponses with its worklist taken from the front
\* (queue.shift()) and wrapped types put at the back
RECURSIVE ShiftLoop(_, _, _)
ShiftPush(rest, results, e) == ShiftLoop(rest, Append(results, e.r), e.c)

ShiftStep(current, ty, rest, results, comps) ==
    IF IsUnion(current) THEN ShiftLoop(rest \o ty.members, results, comps)
    ELSE IF ty.sym = "Promise"
    THEN ShiftLoop(IF Len(ty.args) > 0 THEN Append(rest, ty.args[1]) ELSE rest,
                   results, comps)
    ELSE IF ty.sym = "JsonResponse"
    THEN ShiftPush(rest, results, EnvelopeResponse(current, comps))
    ELSE ShiftLoop(rest, results, comps)

ShiftLoop(queue, results, comps) ==
    IF queue = <<>> THEN [rs |-> results, c |-> comps]
    ELSE ShiftStep(Head(queue), TypeTable[Head(queue)], Tail(queue), results, comps)

FirstInFirstOut(t) == ShiftLoop(<<t>>, <<>>, EmptyObj).rs

\* C14: the responses map built from the extracted responses, and the
\* internal-error response selected from them, are the same when the worklist
\* of extractResponses is processed first-in first-out instead of last-in
\* first-out.
C14_WorklistOrderIsIrrelevant ==
    pc = "extractResponses" =>
        /\ buildResponses(call.result) = buildResponses(FirstInFirstOut(call.type))
        /\ InternalOf(call.result) = InternalOf(FirstInFirstOut(call.type))

\* the part of C14 that the code keeps: the statuses of the map, and the
\* selected response whenever some envelope has status 500
C14_StatusesAreOrderIndependent ==
    pc = "extractResponses" =>
        /\ DOMAIN buildResponses(call.result)
           = DOMAIN buildResponses(FirstInFirstOut(call.type))
        /\ (\A i \in DOMAIN call.result : \A j \in DOMAIN call.result :
               call.result[i].status = call.result[j].status => i = j)
           => buildResponses(call.result) = buildResponses(FirstInFirstOut(call.type))

(***************************************************************************)
(* SpecValidation: one request handled by the route that                   *)
(* attachHandlerToRouter registers, with the default error handlers.       *)
(* The four safeParse results are inputs; the issues are those of the      *)
(* parse that is found failed first, the only ones the route reads.        *)
(***************************************************************************)
MaxPath == 2
MaxIssues == 2

Locations == <<"headers", "query", "params", "body">>
\* the elements of a ZodIssue path: property names and array indices
PathElements == {[str |-> "user"], [str |-> "name"], [num |-> 0]}
IssuePaths == UNION {[1..n -> PathElements] : n \in 0..MaxPath}
Issues == {[path |-> p, message |-> "Required"] : p \in IssuePaths}
ZodErrors == UNION {[1..n -> Issues] : n \in 1..MaxIssues}
HandlerOutcomes == {"returns", "throws"}

\* String(element), as Array.prototype.join applies it
ElementText(e) == IF "str" \in DOMAIN e THEN e.str ELSE ToString(e.num)

\* Array.prototype.join
RECURSIVE join(_, _)
join(elements, separator) ==
    IF elements = <<>> THEN ""
    ELSE IF Len(elements) = 1 THEN ElementText(elements[1])
    ELSE ElementText(elements[1]) \o separator \o join(Tail(elements), separator)

json(options) ==
    [status |-> options.status,
     headers |-> IF "headers" \in DOMAIN options THEN options.headers ELSE EmptyObj,
     body |-> options.body]

defaultOnInternalServerError ==
    json([status |-> 500, body |-> [error |-> "Internal Server Error"]])

defaultOnValidationError(where, error) ==
    json([status |-> 400,
          body |-> [error |-> "Validation Error",
                    details |-> [i \in DOMAIN error |->
                                    [path |-> [string |-> join(error[i].path, ".")],
                                     message |-> error[i].message]]]])

\* what handler.method returns in the model
HandlerResponse == json([status |-> 200, body |-> [message |-> "pong!"]])

\* what handler.contextProvider(req, res) does, and what
\* res.status(status).setHeaders(...).json(responseBody) does with the
\* handler's response (Object.entries or JSON.stringify may throw)
ContextOutcomes == {"returns", "throws"}
SendOutcomes == {"sent", "throws"}

InitValidation ==
    /\ pc = "input"
    /\ \E success \in [{"headers", "query", "params", "body"} -> BOOLEAN],
          error \in ZodErrors, outcome \in HandlerOutcomes,
          context \in ContextOutcomes, send \in SendOutcomes :
          call = [fn |-> "attachHandlerToRouter", success |-> success,
                  error |-> error, handler |-> outcome, context |-> context,
                  send |-> send, invoked |-> {}, sent |-> <<>>]
    /\ components = EmptyObj
    /\ first = EmptyObj
    /\ ncalls = 0
    /\ paths = EmptyObj
    /\ ops = <<>>
    /\ TypeTable = DeclaredTypes
    /\ NoRun

\* res.status(response.status).setHeaders(...).json(response.body)
Send(response) ==
    /\ pc' = "responded"
    /\ call' = [fn |-> "attachHandlerToRouter", success |-> call.success,
                error |-> call.error, handler |-> call.handler,
                context |-> call.context, send |-> call.send,
                invoked |-> call.invoked, sent |-> Append(call.sent, response),
                result |-> response]

\* the callback given to router[method]("/", ...), up to its await: the four
\* checks, then handler.contextProvider (outside the try block: when it throws
\* the promise of the callback rejects and nothing is sent), then the call of
\* handler.method
HandleRequestBodyUnchecked ==
    /\ pc = "input"
    /\ call.fn = "attachHandlerToRouter"
    /\ CASE ~call.success["headers"] -> Send(defaultOnValidationError("headers", call.error))
         [] call.success["headers"] /\ ~call.success["query"] ->
               Send(defaultOnValidationError("query", call.error))
         [] call.success["headers"] /\ call.success["query"] /\ ~call.success["params"] ->
               Send(defaultOnValidationError("params", call.error))
         [] OTHER ->
               IF call.context = "throws"
               THEN /\ pc' = "rejected"
                    /\ call' = [call EXCEPT !.invoked = {"contextProvider"}]
               ELSE /\ pc' = "awaiting"
                    /\ call' = [call EXCEPT !.invoked = {"contextProvider", "method"}]
    /\ UNCHANGED <<components, first, ncalls, paths, ops, runVars>>
HandleRequest ==
    /\ pc = "input"
    /\ call.fn = "attachHandlerToRouter"
    /\ CASE ~call.success["headers"] -> Send(defaultOnValidationError("headers", call.error))
         [] call.success["headers"] /\ ~call.success["query"] ->
               Send(defaultOnValidationError("query", call.error))
         [] call.success["headers"] /\ call.success["query"] /\ ~call.success["params"] ->
               Send(defaultOnValidationError("params", call.error))
         [] /\ call.success["headers"] /\ call.success["query"] /\ call.success["params"]
            /\ ~call.success["body"] ->
               Send(defaultOnValidationError("body", call.error))
         [] OTHER ->
               IF call.context = "throws"
               THEN /\ pc' = "rejected"
                    /\ call' = [call EXCEPT !.invoked = {"contextProvider"}]
               ELSE /\ pc' = "awaiting"
                    /\ call' = [call EXCEPT !.invoked = {"contextProvider", "method"}]
    /\ UNCHANGED <<components, first, ncalls, paths, ops, runVars>>

\* the rest of the callback, once the promise of handler.method has settled:
\* the response is sent inside the try block, and the catch block answers
\* with onInternalServerError
ResumeRequest ==
    /\ pc = "awaiting"
    /\ call.fn = "attachHandlerToRouter"
    /\ IF call.handler = "throws" \/ call.send = "throws"
       THEN Send(defaultOnInternalServerError)
       ELSE Send(HandlerResponse)
    /\ UNCHANGED <<components, first, ncalls, paths, ops, runVars>>

NextValidation == HandleRequest \/ ResumeRequest

SpecValidation == InitValidation /\ [][NextValidation]_vars

\* the event loop runs every ready callback and continuation
SpecValidationFair == SpecValidation /\ WF_vars(NextValidation)

\* the first location, in the order headers, query, params, body, whose
\* parse failed
FailedLocations(success) == {i \in DOMAIN Locations : ~success[Locations[i]]}
FirstFailed(success) ==
    Locations[CHOOSE i \in FailedLocations(success) :
                 \A j \in FailedLocations(success) : i <= j]

\* C15: the default validation-error response reports the path of each issue
\* as an array that starts with the location that failed validation and goes
\* on with the elements of the issue's own path, not as a dot-separated string.
C15_PathIsArrayWithLocation ==
    (pc = "responded" /\ FailedLocations(call.success) # {}) =>
        /\ call.result.status = 400
        /\ DOMAIN call.result.body.details = DOMAIN call.error
        /\ \A i \in DOMAIN call.error :
              call.result.body.details[i].path
              = [array |-> <<[str |-> FirstFailed(call.success)]>> \o call.error[i].path]

\* what the response does carry: status 400 and, per issue, the message and
\* the elements of the path joined by dots, whatever the location
C15_PathIsDotSeparatedString ==
    (pc = "responded" /\ FailedLocations(call.success) # {}) =>
        /\ call.result.status = 400
        /\ call.result.body.error = "Validation Error"
        /\ DOMAIN call.result.body.details = DOMAIN call.error
        /\ \A i \in DOMAIN call.error :
              /\ call.result.body.details[i].message = call.error[i].message
              /\ call.result.body.details[i].path
                 = [string |-> join(call.error[i].path, ".")]

\* the (path, method) of the operations of a subtree in the order of a
\* depth-first walk: the handlers of the node, then each child's subtree,
\* children in the order of the node's children argument; a node type with
\* fewer than three arguments ends the walk
RECURSIVE SubtreeOps(_, _), ChildrenOps(_, _)
HandlerOps(handlers, path) == [i \in DOMAIN handlers |-> <<path, handlers[i].name>>]

ChildrenOps(children, path) ==
    IF children = <<>> THEN <<>>
    ELSE SubtreeOps(children[1], path) \o ChildrenOps(Tail(children), path)

NodeOps(node, path) ==
    HandlerOps(NodeTable[node].handlers, path)
    \o ChildrenOps(IF NodeTable[node].childrenArg.array
                   THEN NodeTable[node].childrenArg.elems ELSE <<>>, path)

SubtreeOps(node, base) ==
    IF NodeTable[node].nargs < 3 THEN <<>>
    ELSE NodeOps(node, joinPaths(base, IF NodeTable[node].pathArg.literal
                                       THEN NodeTable[node].pathArg.value ELSE <<"/">>))

IsPrefix(s, t) == Len(s) <= Len(t) /\ \A i \in DOMAIN s : s[i] = t[i]
EmittedOps == [i \in DOMAIN ops |-> <<ops[i].path, ops[i].method>>]

\* C16: traverseRoutes walks the route tree depth-first with children in
\* declaration order: at every moment the operations emitted so far are the
\* first ones of the depth-first list of (joined path, handler) of the tree,
\* and when the walk has returned they are the whole list, one per handler.
C16_DepthFirstInDeclarationOrder ==
    /\ ops # <<>> => IsPrefix(EmittedOps, SubtreeOps(app.root, <<>>))
    /\ pc = "done" => EmittedOps = SubtreeOps(app.root, <<>>)

\* the walk of the tree api has returned: the operations of a and of its
\* child byId come before the one of the later sibling b
C16_Witness ==
    /\ pc = "done"
    /\ app.root = "api"
    /\ Len(ops) = 6
    /\ ops[3].path = <<"/", "a">>
    /\ ops[4].path = <<"/", "a", "/", ":", "i", "d">>
    /\ ops[5].method = Post
    /\ ops[6].path = <<"/", "b", "/">>

\* the members of the body argument of a request type, <<>> when the handler
\* has no request type or the request type no fourth argument
BodyMembers(requestType) ==
    IF requestType = <<>> THEN <<>>
    ELSE IF Len(TypeTable[requestType[1]].args) < 4 THEN <<>>
    ELSE IF IsUnion(TypeTable[requestType[1]].args[4])
    THEN TypeTable[TypeTable[requestType[1]].args[4]].members
    ELSE <<TypeTable[requestType[1]].args[4]>>

IsNonTrivialMember(t) ==
    TypeTable[t].kind # "undefined" /\ ~isTrivialRequestComponent(<<t>>)

NonTrivialMembers(requestType) == SelectSeq(BodyMembers(requestType), IsNonTrivialMember)

HasUndefinedBodyMember(requestType) ==
    \E i \in DOMAIN BodyMembers(requestType) :
        TypeTable[BodyMembers(requestType)[i]].kind = "undefined"

\* C17: extractRequest gives a requestBody if and only if the body type has,
\* undefined removed, a non-trivial member; then required is true exactly when
\* the body type has no undefined member and the schema is getSchemaFor of the
\* non-trivial members alone.
C17_RequestBodyOfNonTrivialMembers ==
    pc = "extractRequest" =>
        /\ "requestBody" \in DOMAIN call.result
           <=> NonTrivialMembers(call.type) # <<>>
        /\ "requestBody" \in DOMAIN call.result =>
              /\ call.result.requestBody.required = ~HasUndefinedBodyMember(call.type)
              /\ call.result.requestBody.schema
                 = getSchemaFor(NonTrivialMembers(call.type), components, MaxStack).s

\* an optional body, and a body with a trivial member next to a real one
C17_Witness ==
    /\ pc = "extractRequest"
    /\ call.type \in {<<"Request<all>">>, <<"Request<body:{}|{a,b}>">>}
    /\ "requestBody" \in DOMAIN call.result
    /\ call.type = <<"Request<all>">> => ~call.result.requestBody.required
    /\ call.type = <<"Request<body:{}|{a,b}>">> =>
          /\ call.result.requestBody.required
          /\ call.result.requestBody.schema = getSchema("{a,b}", EmptyObj, MaxStack).s

\* the properties of the argument of a request type that declares the
\* parameters of a location
LocationArg(location) ==
    CASE location = "header" -> 1 [] location = "path" -> 2 [] location = "query" -> 3

DeclaredProperties(requestType, location) ==
    IF requestType = <<>> THEN <<>>
    ELSE IF Len(TypeTable[requestType[1]].args) < LocationArg(location) THEN <<>>
    ELSE TypeTable[TypeTable[requestType[1]].args[LocationArg(location)]].props

TypeHasUndefined(t) ==
    IsUnion(t) /\ \E i \in DOMAIN TypeTable[t].members :
                     TypeTable[TypeTable[t].members[i]].kind = "undefined"

\* C18: every parameter with in = "path" is required, whatever its declared
\* type says; a header or query parameter is required exactly when its type
\* has no undefined member and the property is not declared optional.
C18_PathParametersAlwaysRequired ==
    pc = "extractRequest" =>
        \A i \in DOMAIN call.result.parameters :
            /\ call.result.parameters[i]["in"] = "path"
               => call.result.parameters[i].required
            /\ call.result.parameters[i]["in"] \in {"header", "query"} =>
                  \E j \in DOMAIN DeclaredProperties(call.type,
                                                     call.result.parameters[i]["in"]) :
                     /\ cleanSymbolName(DeclaredProperties(
                            call.type, call.result.parameters[i]["in"])[j].name)
                        = call.result.parameters[i].name
                     /\ call.result.parameters[i].required
                        = (/\ ~TypeHasUndefined(DeclaredProperties(
                                  call.type, call.result.parameters[i]["in"])[j].type)
                           /\ ~DeclaredProperties(
                                  call.type, call.result.parameters[i]["in"])[j].optional)

\* a declared optional path parameter, a header whose type has an undefined
\* member and an optional query parameter
C18_Witness ==
    /\ pc = "extractRequest"
    /\ call.type = <<"Request<{h},{p?},{p?}>">>
    /\ \E i, j, k \in DOMAIN call.result.parameters :
          /\ call.result.parameters[i] = [name |-> "p", in |-> "path", required |-> TRUE,
                                          schema |-> [type |-> "string"]]
          /\ call.result.parameters[j].name = "h"
          /\ call.result.parameters[j]["in"] = "header"
          /\ ~call.result.parameters[j].required
          /\ call.result.parameters[k].name = "p"
          /\ call.result.parameters[k]["in"] = "query"
          /\ ~call.result.parameters[k].required

\* the members of the body argument of an envelope that are not undefined
EnvelopeBodyMembers(t) ==
    IF Len(TypeTable[t].args) < 2 THEN <<>>
    ELSE IF IsUnion(TypeTable[t].args[2]) THEN TypeTable[TypeTable[t].args[2]].members
    ELSE <<TypeTable[t].args[2]>>

IsNotUndefined(t) == TypeTable[t].kind # "undefined"
RemainingBody(t) == SelectSeq(EnvelopeBodyMembers(t), IsNotUndefined)

\* the decimal text of the status argument when it is a number literal
StatusText(t) ==
    IF Len(TypeTable[t].args) >= 1 /\ TypeTable[TypeTable[t].args[1]].kind = "numlit"
    THEN ToString(TypeTable[TypeTable[t].args[1]].lit.num) ELSE "default"

\* C19: for a response envelope extractResponses gives the status as the
\* decimal text of a number-literal first argument and "default" otherwise,
\* and a body schema if and only if the body argument is there and keeps a
\* member once undefined is removed; without such a body the response has no
\* schema field and its response object no content.
C19_StatusAndBodyOfEnvelope ==
    (pc = "extractResponses" /\ TypeTable[call.type].sym = "JsonResponse") =>
        /\ Len(call.result) = 1
        /\ \A i \in DOMAIN call.result :
              /\ call.result[i].status = StatusText(call.type)
              /\ "schema" \in DOMAIN call.result[i] <=> RemainingBody(call.type) # <<>>
              /\ "content" \in DOMAIN responseRepresentationToObject(call.result[i])
                 <=> RemainingBody(call.type) # <<>>
              /\ "schema" \in DOMAIN call.result[i] =>
                    call.result[i].schema
                    = getSchemaFor(RemainingBody(call.type), components, MaxStack).s

\* an envelope whose body is undefined, one whose body keeps a member next to
\* undefined, and one whose status is no literal
C19_Witness ==
    /\ pc = "extractResponses"
    /\ call.type \in {"Json<204>", "Json<201,{a,b}|undefined>", "Json<number,{message}>"}
    /\ Len(call.result) = 1
    /\ call.type = "Json<204>" =>
          call.result[1] = [status |-> "204", description |-> "HTTP 204"]
    /\ call.type = "Json<201,{a,b}|undefined>" =>
          /\ call.result[1].status = "201"
          /\ call.result[1].schema = getSchema("{a,b}", EmptyObj, MaxStack).s
    /\ call.type = "Json<number,{message}>" => call.result[1].status = "default"

\* the header keys of the responses of a status, and the position of the
\* latest response of the status that defines a key
HeaderKeys(responses, status) ==
    UNION {DOMAIN responses[i].headers :
              i \in {j \in WithStatus(responses, status) : "headers" \in DOMAIN responses[j]}}

Defining(responses, status, key) ==
    {i \in WithStatus(responses, status) :
        "headers" \in DOMAIN responses[i] /\ key \in DOMAIN responses[i].headers}

Latest(positions) == CHOOSE i \in positions : \A j \in positions : j <= i
Earliest(positions) == CHOOSE i \in positions : \A j \in positions : i <= j

\* the responses of a status whose description is not the generated one
NonGeneric(responses, status) ==
    {i \in WithStatus(responses, status) : responses[i].description # "HTTP " \o status}

WrittenHeaders(status) ==
    IF "headers" \in DOMAIN WrittenResponses[status]
    THEN WrittenResponses[status].headers ELSE EmptyObj

\* C20: when two or more responses of an operation have one status, the
\* merged entry's headers have every header key of any of them with the value
\* of the latest response that defines the key, and its description is the
\* first description that is not "HTTP <status>", or "HTTP <status>" when
\* there is none.
C20_MergedHeadersAndDescription ==
    pc = "addOperation" =>
        \A status \in DOMAIN WrittenResponses :
            Cardinality(WithStatus(call.operation.responses, status)) >= 2 =>
                /\ DOMAIN WrittenHeaders(status) = HeaderKeys(call.operation.responses, status)
                /\ \A key \in DOMAIN WrittenHeaders(status) :
                      Defining(call.operation.responses, status, key) # {} =>
                          WrittenHeaders(status)[key]
                          = call.operation.responses[
                                Latest(Defining(call.operation.responses, status, key))
                            ].headers[key]
                /\ WrittenResponses[status].description
                   = IF NonGeneric(call.operation.responses, status) = {}
                     THEN "HTTP " \o status
                     ELSE call.operation.responses[
                              Earliest(NonGeneric(call.operation.responses, status))
                          ].description

\* two responses of status 200: the first with the generated description and
\* one header, the second with another description and that header again
C20_Witness ==
    /\ pc = "addOperation"
    /\ Len(call.operation.responses) = 2
    /\ call.operation.responses[1]
       = [status |-> "200", description |-> "HTTP 200", headers |-> HeadersA]
    /\ call.operation.responses[2]
       = [status |-> "200", description |-> "Validation Error", headers |-> HeadersB]
    /\ WrittenResponses["200"] = [description |-> "Validation Error", headers |-> HeadersB]

\* the statuses a handler declares: those of the envelopes of its response type
DeclaredStatuses(handler) ==
    IF Len(handler.args) < 1 THEN {}
    ELSE {StatusOf(TypeTable[EnvelopeLeaves(handler.args[1])[i]].args) :
             i \in DOMAIN EnvelopeLeaves(handler.args[1])}

\* the responses map written for the operation emitted last
EmittedResponses == paths[call.operation.path][Str(toLowerCase(call.operation.method))].responses

Injections(handler) ==
    (IF EnvelopeLeaves(app.internal) # <<>> THEN 1 ELSE 0)
    + (IF EnvelopeLeaves(app.validation) # <<>> /\ NonTrivialRequest(handler) THEN 1 ELSE 0)

OwnResponses(handler) ==
    IF Len(handler.args) < 1 THEN 0 ELSE Len(EnvelopeLeaves(handler.args[1]))

\* C22: a configured error type with at least one envelope always provides
\* the response to inject, whatever its status: every operation gets the
\* internal-error response, and every operation with a non-trivial request
\* the validation-error response, also when no envelope has status 500 or
\* 400 respectively.
C22_AnyEnvelopeIsInjected ==
    (call.fn = "addOperation" /\ app # NoApp) =>
        /\ EnvelopeLeaves(app.internal) # <<>> => errors.internal # <<>>
        /\ EnvelopeLeaves(app.validation) # <<>> => errors.validation # <<>>
        /\ Len(call.operation.responses)
           = OwnResponses(call.handler) + Injections(call.handler)

\* the half of C22 that the code keeps: the internal-error response
C22_InternalIsInjectedWhateverItsStatus ==
    (call.fn = "addOperation" /\ app # NoApp /\ EnvelopeLeaves(app.internal) # <<>>) =>
        /\ errors.internal # <<>>
        /\ errors.internal[1].status = StatusOf(TypeTable[app.internal].args)
        /\ Received(call.operation, errors.internal)

\* the schema of the value type argument of a key-value-map type
ValueSchema(t) ==
    IF Len(TypeTable[t].args) >= 2
    THEN getSchema(TypeTable[t].args[2], components, MaxStack).s ELSE EmptyObj

\* C23: a key-value-map type (Map<K, V> or Record<K, V>) that reaches the
\* structural rules is classified as an object whose additionalProperties is
\* the schema of V, and the empty schema only when there is no value type
\* argument.
C23_MapValueTypeIsClassified ==
    (/\ pc = "getSchema"
     /\ TypeTable[call.type].sym \in {"Map", "Record"}
     /\ ~tryGenerateSchemaByName(call.type, components).ok) =>
        call.result = [type |-> "object", additionalProperties |-> ValueSchema(call.type)]

\* what holds of the two: Record has the schema of its value type, Map the
\* empty schema whatever its value type
C23_RecordValueTypeIsClassified ==
    (/\ pc = "getSchema"
     /\ ~tryGenerateSchemaByName(call.type, components).ok) =>
        /\ TypeTable[call.type].sym = "Record" =>
              call.result
              = [type |-> "object", additionalProperties |-> ValueSchema(call.type)]
        /\ TypeTable[call.type].sym = "Map" =>
              call.result = [type |-> "object", additionalProperties |-> EmptyObj]

ExpectedResponse ==
    IF FailedLocations(call.success) # {}
    THEN defaultOnValidationError(FirstFailed(call.success), call.error)
    ELSE IF call.context = "throws" \/ call.handler = "throws" \/ call.send = "throws"
         THEN defaultOnInternalServerError
         ELSE HandlerResponse

C26_EveryRequestIsAnsweredOnce ==
    <>[](pc = "responded" /\ call.sent = <<ExpectedResponse>>)

\* what holds: a request is never answered twice, and it is answered as the
\* claim says unless the context provider throws; then it is never answered
C26_NeverAnsweredTwice == call.fn = "attachHandlerToRouter" => Len(call.sent) <= 1

C26_AnsweredUnlessContextThrows ==
    <>[](IF FailedLocations(call.success) = {} /\ call.context = "throws"
         THEN pc = "rejected" /\ call.sent = <<>>
         ELSE pc = "responded" /\ call.sent = <<ExpectedResponse>>)

(***************************************************************************)
(* SpecRouter: one request routed through the router that XPRVApp builds   *)
(* from a route tree.  A path is its sequence of segments; a segment of a  *)
(* node's path is a literal or a parameter (":id"), which Express matches  *)
(* against any one segment.                                                *)
(***************************************************************************)
\* longest request path, in segments
MaxSegments == 2

Static(s) == [lit |-> s]
Named(s) == [param |-> s]
RouteNode(path, handlers, children) ==
    [path |-> path, handlers |-> handlers, children |-> children]

\* route trees as the node() calls of an application build them: handlers is
\* the set of keys of the node's handlers object
RouteTable ==
    \* a parameter child declared before a literal sibling
    ("shop" :> RouteNode(<<>>, {"get"}, <<"users", "files">>)) @@
    ("users" :> RouteNode(<<Static("users")>>, {"get", "post"}, <<"byId", "me">>)) @@
    ("byId" :> RouteNode(<<Named("id")>>, {"get"}, <<>>)) @@
    ("me" :> RouteNode(<<Static("me")>>, {"post"}, <<>>)) @@
    ("files" :> RouteNode(<<Static("files")>>, {}, <<"one">>)) @@
    ("one" :> RouteNode(<<Static("7")>>, {"get"}, <<>>)) @@
    \* no two nodes answer at one path
    ("blog" :> RouteNode(<<>>, {"get"}, <<"posts", "tags">>)) @@
    ("posts" :> RouteNode(<<Static("users")>>, {"get", "post"}, <<"post">>)) @@
    ("post" :> RouteNode(<<Named("id")>>, {"get", "delete"}, <<>>)) @@
    ("tags" :> RouteNode(<<Static("files")>>, {}, <<"tag">>)) @@
    ("tag" :> RouteNode(<<Static("me")>>, {"post"}, <<>>)) @@
    \* a root without handlers
    ("bare" :> RouteNode(<<>>, {}, <<"only">>)) @@
    ("only" :> RouteNode(<<Static("me"), Static("7")>>, {"delete"}, <<>>))

RouteRoots == {"shop", "blog", "bare"}
RequestMethods == {"get", "post", "delete"}
PathSegments == {"users", "me", "7", "files"}
RequestPaths == UNION {[1..n -> PathSegments] : n \in 0..MaxSegments}

\* Express matches a segment of a route path against a segment of the URL
SegmentMatches(segment, text) == "param" \in DOMAIN segment \/ segment.lit = text

\* router.use(path, ...): the path matches a prefix of the URL
MountMatches(path, url) ==
    /\ Len(path) <= Len(url)
    /\ \A i \in DOMAIN path : SegmentMatches(path[i], url[i])

defaultOnNotFound == json([status |-> 404, body |-> [error |-> "Not Found"]])
defaultOnMethodNotAllowed ==
    json([status |-> 405, body |-> [error |-> "Method Not Allowed"]])

\* the router of one node: its handlers at "/", then router.all("/") when the
\* node has a handler, then the routers of its children under their paths, in
\* declaration order; a router that answers nothing passes the request on
RECURSIVE buildRouter(_, _, _), useChildren(_, _, _, _)
buildRouter(rootNode, method, url) ==
    IF url = <<>> /\ method \in RouteTable[rootNode].handlers
    THEN [by |-> "handler", node |-> rootNode]
    ELSE IF url = <<>> /\ RouteTable[rootNode].handlers # {}
         THEN [by |-> "onMethodNotAllowed", node |-> rootNode,
               response |-> defaultOnMethodNotAllowed]
         ELSE useChildren(RouteTable[rootNode].children, 1, method, url)
useChildren(children, i, method, url) ==
    IF i > Len(children) THEN [by |-> "next"]
    ELSE IF ~MountMatches(RouteTable[children[i]].path, url)
         THEN useChildren(children, i + 1, method, url)
         ELSE IF buildRouter(children[i], method,
                             SubSeq(url, Len(RouteTable[children[i]].path) + 1,
                                    Len(url))).by = "next"
              THEN useChildren(children, i + 1, method, url)
              ELSE buildRouter(children[i], method,
                               SubSeq(url, Len(RouteTable[children[i]].path) + 1,
                                      Len(url)))

\* XPRVApp.buildRouter: the router of the root node, then the 404 middleware
AppRouter(rootNode, method, url) ==
    IF buildRouter(rootNode, method, url).by = "next"
    THEN [by |-> "onNotFound",
          response |-> [status |-> 404, body |-> defaultOnNotFound.body]]
    ELSE buildRouter(rootNode, method, url)

InitRouter ==
    /\ pc = "input"
    /\ \E rootNode \in RouteRoots, method \in RequestMethods, url \in RequestPaths :
          call = [fn |-> "buildRouter", rootNode |-> rootNode, method |-> method,
                  url |-> url]
    /\ components = EmptyObj
    /\ first = EmptyObj
    /\ ncalls = 0
    /\ paths = EmptyObj
    /\ ops = <<>>
    /\ TypeTable = DeclaredTypes
    /\ NoRun

RouteRequest ==
    /\ pc = "input"
    /\ call.fn = "buildRouter"
    /\ pc' = "routed"
    /\ call' = [fn |-> "buildRouter", rootNode |-> call.rootNode,
                method |-> call.method, url |-> call.url,
                result |-> AppRouter(call.rootNode, call.method, call.url)]
    /\ UNCHANGED <<components, first, ncalls, paths, ops, runVars>>

NextRouter == RouteRequest

SpecRouter == InitRouter /\ [][NextRouter]_vars

\* the nodes of a tree with their paths from the root
RECURSIVE NodesUnder(_, _), NodesOfChildren(_, _)
NodesUnder(id, base) ==
    {[node |-> id, path |-> base]} \cup NodesOfChildren(RouteTable[id].children, base)
NodesOfChildren(children, base) ==
    IF children = <<>> THEN {}
    ELSE NodesUnder(children[1], base \o RouteTable[children[1]].path)
         \cup NodesOfChildren(Tail(children), base)

\* the request is a request to the exact path of the node
AtExactPath(n, url) == Len(n.path) = Len(url) /\ MountMatches(n.path, url)

AnsweredAsDeclared(n) ==
    IF RouteTable[n.node].handlers = {}
    THEN call.result.by = "onNotFound"
    ELSE IF call.method \in RouteTable[n.node].handlers
         THEN call.result.by # "onMethodNotAllowed"
         ELSE call.result.by = "onMethodNotAllowed"

\* C25: a request to the exact path of a node with at least one handler gets
\* the method-not-allowed response if its method has no handler at the node,
\* and never gets it if the method has one; a request to the exact path of a
\* node without handlers gets the not-found response.
C25_MethodNotAllowedFollowsTheNode ==
    (pc = "routed" /\ call.fn = "buildRouter") =>
        \A n \in NodesUnder(call.rootNode, <<>>) :
            AtExactPath(n, call.url) => AnsweredAsDeclared(n)

\* what holds: the claim's answer for the first node, in depth-first
\* declaration order, whose path matches the request; a node declared after
\* a sibling that matches the same request never sees it
SoleMatch(root, url) ==
    Cardinality({n \in NodesUnder(root, <<>>) : AtExactPath(n, url)}) = 1

C25_HoldsWhereOneNodeMatches ==
    (pc = "routed" /\ call.fn = "buildRouter" /\ SoleMatch(call.rootNode, call.url)) =>
        \A n \in NodesUnder(call.rootNode, <<>>) :
            AtExactPath(n, call.url) => AnsweredAsDeclared(n)

\* the (path, method) keys under paths in the written document
DocumentKeys ==
    UNION {{<<p, m>> : m \in DOMAIN output[1].paths[p]} : p \in DOMAIN output[1].paths}

\* C27: every handler of the route tree has its operation in the final
\* document: the number of operations under paths is the number of handlers
\* of the tree, and the operation found under the key of a handler is the one
\* emitted for that handler, whatever later nodes render to.
C27_OneOperationPerHandler ==
    pc = "done" =>
        /\ Cardinality(DocumentKeys) = Len(SubtreeOps(app.root, <<>>))
        /\ \A i \in DOMAIN ops :
              output[1].paths[ops[i].path][Str(toLowerCase(ops[i].method))]
              = OperationObject(ops[i])

\* what holds: the document has one operation per distinct key, and under a
\* key the operation of the handler emitted last for it
LastFor(i) ==
    \A j \in DOMAIN ops :
        (ops[j].path = ops[i].path
         /\ toLowerCase(ops[j].method) = toLowerCase(ops[i].method)) => j <= i

C27_LastOperationPerKey ==
    pc = "done" =>
        /\ DocumentKeys = {<<ops[i].path, Str(toLowerCase(ops[i].method))>> : i \in DOMAIN ops}
        /\ \A i \in DOMAIN ops :
              LastFor(i) =>
                  output[1].paths[ops[i].path][Str(toLowerCase(ops[i].method))]
                  = OperationObject(ops[i])

\* C28: two distinct (path, method) keys of the final document never carry
\* the same operationId.
C28_OperationIdsAreDistinct ==
    pc = "done" =>
        \A k1 \in DocumentKeys : \A k2 \in DocumentKeys :
            k1 # k2 => output[1].paths[k1[1]][k1[2]].operationId
                       # output[1].paths[k2[1]][k2[2]].operationId

\* what holds: the operationId of a key is the lower-cased method, an
\* underscore and the path with every run of characters other than letters
\* and digits replaced by one underscore, so that keys whose paths differ in
\* such characters only share it
C28_OperationIdOfItsKey ==
    pc = "done" =>
        \A i \in DOMAIN ops :
            output[1].paths[ops[i].path][Str(toLowerCase(ops[i].method))].operationId
            = createOperationId(ops[i].method, ops[i].path)

\* the names of the properties a type declares
PropertyNames(t) == {TypeTable[t].props[i].name : i \in DOMAIN TypeTable[t].props}

\* the entry of the component table a `$ref` fragment names
Resolved(fragment) == components[fragment["$ref"][Len(fragment["$ref"])]]

DescribedProperties(schema) ==
    IF "properties" \in DOMAIN schema THEN DOMAIN schema.properties ELSE {}

\* C29: a `$ref` fragment returned for a named type resolves, through the
\* component table, to the schema of that very type: the entry describes the
\* properties the type declares, also when another type has the same
\* declared name.
C29_FragmentDescribesItsOwnType ==
    (pc = "getSchema" /\ call.type \in NamedTypes /\ "$ref" \in DOMAIN call.result) =>
        DescribedProperties(Resolved(call.result)) = PropertyNames(call.type)

\* what holds: the entry is the one the nominal generator has for the name of
\* the type's symbol, whichever type of that name was asked for
C29_FragmentDescribesTheName ==
    (pc = "getSchema" /\ call.type \in NamedTypes /\ "$ref" \in DOMAIN call.result) =>
        /\ call.result = DefinitionRef(TypeTable[call.type].sym)
        /\ Resolved(call.result)
           = Definitions(TypeTable[call.type].sym)[TypeTable[call.type].sym]

\* the response of the configured error type that a selected response was
\* cloned from: the first extracted one with its status
Original(type, selected) ==
    FirstWithStatus(extractResponses(type, EmptyObj).rs, selected.status)

SameContent(a, b) ==
    /\ a.status = b.status
    /\ HasSchema(a) = HasSchema(b)
    /\ HasSchema(a) => a.schema = b.schema
    /\ HeadersOrEmpty(a) = HeadersOrEmpty(b)

DerivedFromConfigured(type, selected) ==
    selected # <<>> =>
        /\ Original(type, selected[1]) # <<>>
        /\ SameContent(selected[1], Original(type, selected[1])[1])

\* the responses appended to the ones the handler declares
InjectedInto(operation, handler) ==
    SubSeq(operation.responses, OwnResponses(handler) + 1, Len(operation.responses))

====
